---- MODULE Spec2Model ----
(***************************************************************************)
(* Model of the fuzzy-matching patch engine of openclaw-plus: the          *)
(* code_edit tool (single search-and-replace with three match strategies)  *)
(* and the code_apply_diff tool (multi-hunk SEARCH/REPLACE application).   *)
(*                                                                         *)
(* Strings are sequences of one-character strings.  Offsets handed between *)
(* operators are 0-based, as in the TypeScript source; SubSeq is 1-based.  *)
(***************************************************************************)
EXTENDS Integers, Sequences, FiniteSets, TLC

\* ------------------------------------------------------------------------
\* Bounds of the model
\* ------------------------------------------------------------------------
MaxFileLen == 2
MaxOldLen == 2
MaxNewLen == 1
MaxExpected == 2
MaxRawLen == 4
MaxBlocks == 2
MaxSearchLen == 2
MaxReplaceLen == 1
MaxSessionFileLen == 3
MaxSessionArgLen == 2
MaxRetries == 1
MaxMatchingLines == 2
MaxPatternLen == 3
MaxSegments == 3
MaxResolveFileLen == 3

FileChars == {"a", " ", "\n"}
NewChars == {"a", "$"}
RawChars == {"a", "\r", "\n"}
ReplaceChars == {"a"}
SessionChars == {"a", "\r", "\n"}
PatternChars == {"a", " ", "\t", "\n"}

Strs(chars, n) == UNION {[1..k -> chars] : k \in 0..n}

\* ------------------------------------------------------------------------
\* JavaScript string primitives
\* ------------------------------------------------------------------------
SetMin(S) == CHOOSE x \in S : \A y \in S : x <= y

\* String.prototype.substring(from, to): both ends clamped to the string
substring(s, from, to) ==
  LET lo == IF from > Len(s) THEN Len(s) ELSE from
      hi == IF to > Len(s) THEN Len(s) ELSE to
  IN SubSeq(s, lo + 1, hi)

startsWithAt(s, sub, pos) ==
  /\ pos >= 0
  /\ pos + Len(sub) <= Len(s)
  /\ SubSeq(s, pos + 1, pos + Len(sub)) = sub

\* String.prototype.indexOf(sub, from): first offset >= from, or -1
indexOf(s, sub, from) ==
  LET hits == {p \in from..(Len(s) - Len(sub)) : startsWithAt(s, sub, p)}
  IN IF hits = {} THEN -1 ELSE SetMin(hits)

includes(s, sub) == indexOf(s, sub, 0) # -1

\* The offsets String.prototype.replaceAll visits for a string pattern:
\* left to right, the next search starting after the previous occurrence.
RECURSIVE literalPositions(_, _, _)
literalPositions(s, sub, from) ==
  LET pos == indexOf(s, sub, from)
      advanceBy == IF Len(sub) > 1 THEN Len(sub) ELSE 1
  IN IF pos = -1 THEN <<>>
     ELSE <<pos>> \o literalPositions(s, sub, pos + advanceBy)

\* GetSubstitution of ECMAScript for a string pattern (no capture groups):
\* "$$" is a dollar sign, "$&" the matched text, "$`" and "$'" the text
\* before and after the match; any other "$" stands for itself.
RECURSIVE getSubstitution(_, _, _, _)
getSubstitution(template, matched, s, position) ==
  IF template = <<>> THEN <<>>
  ELSE IF Head(template) = "$" /\ Len(template) >= 2
    THEN LET nxt == template[2]
             rest == SubSeq(template, 3, Len(template))
         IN CASE nxt = "$" -> <<"$">> \o getSubstitution(rest, matched, s, position)
              [] nxt = "&" -> matched \o getSubstitution(rest, matched, s, position)
              [] nxt = "`" -> substring(s, 0, position)
                                \o getSubstitution(rest, matched, s, position)
              [] nxt = "'" -> substring(s, position + Len(matched), Len(s))
                                \o getSubstitution(rest, matched, s, position)
              [] OTHER -> <<"$">> \o getSubstitution(Tail(template), matched, s, position)
    ELSE <<Head(template)>> \o getSubstitution(Tail(template), matched, s, position)

\* String.prototype.replaceAll(sub, template) with a string pattern
RECURSIVE spliceLiteral(_, _, _, _, _)
spliceLiteral(s, sub, template, positions, from) ==
  IF positions = <<>> THEN substring(s, from, Len(s))
  ELSE LET p == Head(positions)
       IN substring(s, from, p)
            \o getSubstitution(template, sub, s, p)
            \o spliceLiteral(s, sub, template, Tail(positions), p + Len(sub))

replaceAll(s, sub, template) ==
  spliceLiteral(s, sub, template, literalPositions(s, sub, 0), 0)

\* ------------------------------------------------------------------------
\* Fuzzy matching helpers (code_edit)
\* ------------------------------------------------------------------------

\* countOccurrences: non-overlapping literal occurrences, left to right
RECURSIVE countFrom(_, _, _)
countFrom(str, substr, pos) ==
  IF pos = -1 THEN 0
  ELSE 1 + countFrom(str, substr, indexOf(str, substr, pos + Len(substr)))

countOccurrences(str, substr) ==
  IF substr = <<>> THEN 0
  ELSE countFrom(str, substr, indexOf(str, substr, 0))

\* The characters of the model that the regex class \s matches
IsWhitespace(c) == c \in {" ", "\t", "\n", "\r"}

\* The characters the class [\t ] matches
IsHorizontal(c) == c \in {" ", "\t"}

\* Length of the longest run of characters of one kind starting at pos
RECURSIVE runLength(_, _, _)
runLength(s, pos, ws) ==
  IF pos < Len(s) /\ IsWhitespace(s[pos + 1]) = ws
  THEN 1 + runLength(s, pos + 1, ws)
  ELSE 0

\* oldLF.match(/(\s+|\S+)/g): the maximal whitespace and non-whitespace runs
RECURSIVE partsFrom(_, _)
partsFrom(s, pos) ==
  IF pos >= Len(s) THEN <<>>
  ELSE LET n == runLength(s, pos, IsWhitespace(s[pos + 1]))
       IN <<substring(s, pos, pos + n)>> \o partsFrom(s, pos + n)

matchParts(s) == partsFrom(s, 0)

isWhitespacePart(part) == part # <<>> /\ \A i \in 1..Len(part) : IsWhitespace(part[i])

\* A compiled pattern is a sequence of atoms:
\*   [kind |-> "char", ch |-> c]   the escaped literal character c
\*   [kind |-> "space"]            \s+
\*   [kind |-> "blank"]            [\t ]+
\*   [kind |-> "never"]            (?!)
NeverPattern == <<[kind |-> "never"]>>

\* escapeRegExp: every character of the part matches itself only
escapeRegExp(part) == [i \in 1..Len(part) |-> [kind |-> "char", ch |-> part[i]]]

RECURSIVE joinAtoms(_)
joinAtoms(seqs) ==
  IF seqs = <<>> THEN <<>> ELSE Head(seqs) \o joinAtoms(Tail(seqs))

\* Every whitespace run becomes \s+
wsPartAtomsAnySpace(part) ==
  IF isWhitespacePart(part) THEN <<[kind |-> "space"]>> ELSE escapeRegExp(part)

wsPartAtoms(part) ==
  IF isWhitespacePart(part)
  THEN (IF \E i \in 1..Len(part) : part[i] = "\n"
        THEN <<[kind |-> "space"]>>
        ELSE <<[kind |-> "blank"]>>)
  ELSE escapeRegExp(part)

buildWhitespaceTolerantRegex(oldLF) ==
  IF oldLF = <<>> THEN NeverPattern
  ELSE LET parts == matchParts(oldLF)
       IN joinAtoms([i \in 1..Len(parts) |-> wsPartAtoms(parts[i])])

\* oldLF.split(/\s+/).filter(Boolean): the non-whitespace runs
splitTokens(oldLF) == SelectSeq(matchParts(oldLF), LAMBDA p : ~isWhitespacePart(p))

buildTokenRegex(oldLF) ==
  LET tokens == splitTokens(oldLF)
  IN IF Len(tokens) = 0 THEN NeverPattern
     ELSE joinAtoms([i \in 1..(2 * Len(tokens) - 1) |->
            IF i % 2 = 1 THEN escapeRegExp(tokens[(i + 1) \div 2])
            ELSE <<[kind |-> "space"]>>])

\* The regex engine on these patterns.  A "+" atom is greedy; it is always
\* followed by a non-whitespace literal or by the end of the pattern, so
\* giving back characters never lets a failed match succeed and the greedy
\* attempt is the only one that matters.
RECURSIVE classRun(_, _, _)
classRun(content, pos, kind) ==
  IF pos < Len(content)
     /\ (IF kind = "space" THEN IsWhitespace(content[pos + 1])
         ELSE IsHorizontal(content[pos + 1]))
  THEN 1 + classRun(content, pos + 1, kind)
  ELSE 0

\* End offset of the match of atoms k.. at pos, or -1
RECURSIVE matchAtoms(_, _, _, _)
matchAtoms(content, regex, k, pos) ==
  IF k > Len(regex) THEN pos
  ELSE LET atom == regex[k]
       IN CASE atom.kind = "never" -> -1
            [] atom.kind = "char" ->
                 IF pos < Len(content) /\ content[pos + 1] = atom.ch
                 THEN matchAtoms(content, regex, k + 1, pos + 1)
                 ELSE -1
            [] OTHER ->
                 LET n == classRun(content, pos, atom.kind)
                 IN IF n = 0 THEN -1
                    ELSE matchAtoms(content, regex, k + 1, pos + n)

\* RegExp.prototype.exec from lastIndex: the leftmost match at or after
\* from, as [index, end], or [index |-> -1, end |-> -1]
regexExec(content, regex, from) ==
  LET hits == {p \in from..Len(content) : matchAtoms(content, regex, 1, p) # -1}
  IN IF hits = {} THEN [index |-> -1, end |-> -1]
     ELSE LET p == SetMin(hits)
          IN [index |-> p, end |-> matchAtoms(content, regex, 1, p)]

\* content.matchAll(regex) with the g flag: successive matches, an empty
\* match advancing lastIndex by one
RECURSIVE matchAll(_, _, _)
matchAll(content, regex, from) ==
  IF from > Len(content) THEN <<>>
  ELSE LET m == regexExec(content, regex, from)
       IN IF m.index = -1 THEN <<>>
          ELSE <<m>> \o matchAll(content, regex,
                                 IF m.end = m.index THEN m.end + 1 ELSE m.end)
\* The matches are counted as the pieces of content.split(regex): one too many
countRegexMatchesBySplit(content, regex) == Len(matchAll(content, regex, 0)) + 1

countRegexMatches(content, regex) == Len(matchAll(content, regex, 0))

\* content.replace(regex, () => newLF) with the g flag: the replacer is a
\* function, so newLF is inserted as it is
RECURSIVE spliceMatches(_, _, _, _)
spliceMatches(content, matches, newLF, from) ==
  IF matches = <<>> THEN substring(content, from, Len(content))
  ELSE LET m == Head(matches)
       IN substring(content, from, m.index) \o newLF
            \o spliceMatches(content, Tail(matches), newLF, m.end)

regexReplace(content, regex, newLF) ==
  spliceMatches(content, matchAll(content, regex, 0), newLF, 0)

\* ------------------------------------------------------------------------
\* Line-ending codec
\* ------------------------------------------------------------------------
LF == <<"\n">>
CRLF == <<"\r", "\n">>

\* The line ending is not detected: every file is taken to use LF
detectLineEndingAlwaysLF(content) == LF

detectLineEnding(content) == IF includes(content, CRLF) THEN CRLF ELSE LF

\* content.replace(/\r\n/g, "\n")
RECURSIVE normalizeToLF(_)
normalizeToLF(content) ==
  IF content = <<>> THEN <<>>
  ELSE IF Len(content) >= 2 /\ content[1] = "\r" /\ content[2] = "\n"
    THEN <<"\n">> \o normalizeToLF(SubSeq(content, 3, Len(content)))
    ELSE <<Head(content)>> \o normalizeToLF(Tail(content))

\* contentLF.replace(/\n/g, "\r\n") unless the file used LF
RECURSIVE expandLF(_)
expandLF(contentLF) ==
  IF contentLF = <<>> THEN <<>>
  ELSE (IF Head(contentLF) = "\n" THEN CRLF ELSE <<Head(contentLF)>>)
         \o expandLF(Tail(contentLF))

\* contentLF.replace(/\n/, "\r\n"): the g flag forgotten
restoreLineEndingFirstOnly(contentLF, eol) ==
  LET pos == indexOf(contentLF, LF, 0)
  IN IF eol = LF \/ pos = -1 THEN contentLF
     ELSE substring(contentLF, 0, pos) \o CRLF
            \o substring(contentLF, pos + 1, Len(contentLF))

restoreLineEnding(contentLF, eol) ==
  IF eol = LF THEN contentLF ELSE expandLF(contentLF)

\* str.replace in place of str.replaceAll: only the first occurrence changes
safeLiteralReplaceFirstOnly(str, oldString, newString) ==
  LET pos == indexOf(str, oldString, 0)
  IN IF oldString = <<>> \/ pos = -1 THEN str
     ELSE substring(str, 0, pos) \o newString
            \o substring(str, pos + Len(oldString), Len(str))

\* safeLiteralReplace: replace every occurrence, "$" in newString kept literal
safeLiteralReplace(str, oldString, newString) ==
  IF oldString = <<>> \/ ~includes(str, oldString) THEN str
  ELSE IF ~includes(newString, <<"$">>) THEN replaceAll(str, oldString, newString)
  ELSE LET escapedNewString == replaceAll(newString, <<"$">>, <<"$", "$", "$", "$">>)
       IN replaceAll(str, oldString, escapedNewString)

\* ------------------------------------------------------------------------
\* code_edit: the three-tier match resolver
\* ------------------------------------------------------------------------

\* Math.max(1, expected_replacements ?? 1); 0 stands for an argument that
\* was not given
expectedCountOf(expected_replacements) ==
  IF expected_replacements < 1 THEN 1 ELSE expected_replacements

\* The relaxed counts tested before the exact count
editErrorRelaxedFirst(exactCount, wsCount, tokenCount) ==
  LET anyMatches == exactCount > 0 \/ wsCount > 0 \/ tokenCount > 0
  IN IF ~anyMatches THEN [kind |-> "no_match"]
     ELSE IF wsCount > 0 \/ tokenCount > 0
       THEN [kind |-> "count_mismatch_relaxed", ws |-> wsCount, token |-> tokenCount]
       ELSE [kind |-> "count_mismatch_exact", found |-> exactCount]

\* The diagnostic thrown when no strategy matched expectedCount times
editError(exactCount, wsCount, tokenCount) ==
  LET anyMatches == exactCount > 0 \/ wsCount > 0 \/ tokenCount > 0
  IN IF ~anyMatches THEN [kind |-> "no_match"]
     ELSE IF exactCount > 0
       THEN [kind |-> "count_mismatch_exact", found |-> exactCount]
       ELSE [kind |-> "count_mismatch_relaxed", ws |-> wsCount, token |-> tokenCount]

\* The whitespace-tolerant strategy tried before the exact one
resolveEditWsFirst(contentLF, oldLF, newLF, expectedCount) ==
  LET wsRegex == buildWhitespaceTolerantRegex(oldLF)
      tokenRegex == buildTokenRegex(oldLF)
      exactCount == countOccurrences(contentLF, oldLF)
      wsCount == countRegexMatches(contentLF, wsRegex)
      tokenCount == countRegexMatches(contentLF, tokenRegex)
  IN IF wsCount = expectedCount
     THEN [matchStrategy |-> "whitespace-tolerant",
           resultContentLF |-> regexReplace(contentLF, wsRegex, newLF),
           error |-> [kind |-> "none"]]
     ELSE IF exactCount = expectedCount
     THEN [matchStrategy |-> "exact",
           resultContentLF |-> safeLiteralReplace(contentLF, oldLF, newLF),
           error |-> [kind |-> "none"]]
     ELSE IF tokenCount = expectedCount
     THEN [matchStrategy |-> "token-based",
           resultContentLF |-> regexReplace(contentLF, tokenRegex, newLF),
           error |-> [kind |-> "none"]]
     ELSE [matchStrategy |-> "",
           resultContentLF |-> contentLF,
           error |-> editError(exactCount, wsCount, tokenCount)]

\* A strategy accepted as soon as it finds at least expectedCount matches
resolveEditAtLeast(contentLF, oldLF, newLF, expectedCount) ==
  LET wsRegex == buildWhitespaceTolerantRegex(oldLF)
      tokenRegex == buildTokenRegex(oldLF)
      exactCount == countOccurrences(contentLF, oldLF)
      wsCount == countRegexMatches(contentLF, wsRegex)
      tokenCount == countRegexMatches(contentLF, tokenRegex)
  IN IF exactCount >= expectedCount
     THEN [matchStrategy |-> "exact",
           resultContentLF |-> safeLiteralReplace(contentLF, oldLF, newLF),
           error |-> [kind |-> "none"]]
     ELSE IF wsCount >= expectedCount
     THEN [matchStrategy |-> "whitespace-tolerant",
           resultContentLF |-> regexReplace(contentLF, wsRegex, newLF),
           error |-> [kind |-> "none"]]
     ELSE IF tokenCount >= expectedCount
     THEN [matchStrategy |-> "token-based",
           resultContentLF |-> regexReplace(contentLF, tokenRegex, newLF),
           error |-> [kind |-> "none"]]
     ELSE [matchStrategy |-> "",
           resultContentLF |-> contentLF,
           error |-> editError(exactCount, wsCount, tokenCount)]

\* Strategy 1 exact, strategy 2 whitespace-tolerant, strategy 3 token-based
\* No relaxed strategy is tried once the search text occurs literally
resolveEditExactFinal(contentLF, oldLF, newLF, expectedCount) ==
  LET wsRegex == buildWhitespaceTolerantRegex(oldLF)
      tokenRegex == buildTokenRegex(oldLF)
      exactCount == countOccurrences(contentLF, oldLF)
      wsCount == countRegexMatches(contentLF, wsRegex)
      tokenCount == countRegexMatches(contentLF, tokenRegex)
  IN IF exactCount = expectedCount
     THEN [matchStrategy |-> "exact",
           resultContentLF |-> safeLiteralReplace(contentLF, oldLF, newLF),
           error |-> [kind |-> "none"]]
     ELSE IF exactCount = 0 /\ wsCount = expectedCount
     THEN [matchStrategy |-> "whitespace-tolerant",
           resultContentLF |-> regexReplace(contentLF, wsRegex, newLF),
           error |-> [kind |-> "none"]]
     ELSE IF exactCount = 0 /\ tokenCount = expectedCount
     THEN [matchStrategy |-> "token-based",
           resultContentLF |-> regexReplace(contentLF, tokenRegex, newLF),
           error |-> [kind |-> "none"]]
     ELSE [matchStrategy |-> "",
           resultContentLF |-> contentLF,
           error |-> editError(exactCount, wsCount, tokenCount)]

resolveEdit(contentLF, oldLF, newLF, expectedCount) ==
  LET wsRegex == buildWhitespaceTolerantRegex(oldLF)
      tokenRegex == buildTokenRegex(oldLF)
      exactCount == countOccurrences(contentLF, oldLF)
      wsCount == countRegexMatches(contentLF, wsRegex)
      tokenCount == countRegexMatches(contentLF, tokenRegex)
  IN IF exactCount = expectedCount
     THEN [matchStrategy |-> "exact",
           resultContentLF |-> safeLiteralReplace(contentLF, oldLF, newLF),
           error |-> [kind |-> "none"]]
     ELSE IF wsCount = expectedCount
     THEN [matchStrategy |-> "whitespace-tolerant",
           resultContentLF |-> regexReplace(contentLF, wsRegex, newLF),
           error |-> [kind |-> "none"]]
     ELSE IF tokenCount = expectedCount
     THEN [matchStrategy |-> "token-based",
           resultContentLF |-> regexReplace(contentLF, tokenRegex, newLF),
           error |-> [kind |-> "none"]]
     ELSE [matchStrategy |-> "",
           resultContentLF |-> contentLF,
           error |-> editError(exactCount, wsCount, tokenCount)]

\* ------------------------------------------------------------------------
\* State
\* ------------------------------------------------------------------------
VARIABLES
  file,      \* the target path on disk: [exists, raw]
  tool,      \* the tool being executed: "none", "code_edit", "code_apply_diff", "codec"
  args,      \* the arguments of the invocation
  pc,        \* where the handler stands: "idle", an await in flight, or "done"
  aborted,   \* signal.aborted
  locals,    \* the handler's local variables that outlive an await
  outcome,   \* what the handler returned or threw
  writes,    \* number of ops.writeFile calls made by the invocation
  history    \* the invocations that returned, oldest first

vars == <<file, tool, args, pc, aborted, locals, outcome, writes, history>>

NoArgs == [file_path |-> <<>>]
NoLocals == [rawContent |-> <<>>]
NoOutcome == [kind |-> "none"]

FilePaths == {<<>>, <<"f">>}
FileContents == Strs(FileChars, MaxFileLen)
DiskStates == {[exists |-> FALSE, raw |-> <<>>]}
                \cup {[exists |-> TRUE, raw |-> c] : c \in FileContents}

EditArgs ==
  [file_path : FilePaths,
   old_string : Strs(FileChars, MaxOldLen),
   new_string : Strs(NewChars, MaxNewLen),
   expected_replacements : 0..MaxExpected]

\* !file_path || !file_path.trim()
isBlank(str) == \A i \in 1..Len(str) : IsWhitespace(str[i])

Finish(result) ==
  /\ pc' = "done"
  /\ outcome' = result

\* The abort signal fires while the handler has not returned
Abort ==
  /\ pc # "done"
  /\ ~aborted
  /\ aborted' = TRUE
  /\ UNCHANGED <<file, tool, args, pc, locals, outcome, writes>>
  /\ UNCHANGED history

\* ------------------------------------------------------------------------
\* code_edit execute
\* ------------------------------------------------------------------------

\* Entry: signal check, file_path check, then ops.access is awaited
EditInvoke(a) ==
  /\ pc = "idle"
  /\ tool' = "code_edit"
  /\ args' = a
  /\ IF aborted THEN Finish([kind |-> "aborted"])
     ELSE IF isBlank(a.file_path) THEN Finish([kind |-> "missing_file_path"])
     ELSE pc' = "access" /\ UNCHANGED outcome
  /\ UNCHANGED <<file, aborted, locals, writes>>
  /\ UNCHANGED history

\* ops.access settled, create-file mode (old_string === "")
EditCreateAccessReturn ==
  /\ pc = "access" /\ tool = "code_edit"
  /\ args.old_string = <<>>
  /\ IF file.exists THEN Finish([kind |-> "already_exists"])
     ELSE pc' = "mkdir" /\ UNCHANGED outcome
  /\ UNCHANGED <<file, tool, args, aborted, locals, writes>>
  /\ UNCHANGED history

\* Create-file mode passes new_string through the line-ending normalization
EditCreateMkdirReturnNormalizing ==
  /\ pc = "mkdir" /\ tool = "code_edit"
  /\ file' = [exists |-> TRUE, raw |-> normalizeToLF(args.new_string)]
  /\ writes' = writes + 1
  /\ pc' = "write"
  /\ locals' = [rawContent |-> <<>>, created |-> TRUE]
  /\ UNCHANGED <<tool, args, aborted, outcome, history>>

\* ops.mkdir settled: ops.writeFile(absolutePath, new_string) is called
EditCreateMkdirReturn ==
  /\ pc = "mkdir" /\ tool = "code_edit"
  /\ file' = [exists |-> TRUE, raw |-> args.new_string]
  /\ writes' = writes + 1
  /\ pc' = "write"
  /\ locals' = [rawContent |-> <<>>, created |-> TRUE]
  /\ UNCHANGED <<tool, args, aborted, outcome>>
  /\ UNCHANGED history

\* ops.access settled, edit mode
EditAccessReturn ==
  /\ pc = "access" /\ tool = "code_edit"
  /\ args.old_string # <<>>
  /\ IF ~file.exists THEN Finish([kind |-> "not_found"])
     ELSE IF aborted THEN Finish([kind |-> "aborted"])
     ELSE pc' = "read" /\ UNCHANGED outcome
  /\ UNCHANGED <<file, tool, args, aborted, locals, writes>>
  /\ UNCHANGED history

\* The result is never compared with the content read
editUnchangedNever(resultContentLF, contentLF) == FALSE

\* if (resultContentLF === contentLF): nothing changed
editUnchanged(resultContentLF, contentLF) == resultContentLF = contentLF

\* ops.readFile settled: normalize, validate, resolve, and call ops.writeFile
EditReadReturn ==
  /\ pc = "read" /\ tool = "code_edit"
  /\ LET rawContent == file.raw
         originalEol == detectLineEnding(rawContent)
         contentLF == normalizeToLF(rawContent)
         oldLF == normalizeToLF(args.old_string)
         newLF == normalizeToLF(args.new_string)
         expectedCount == expectedCountOf(args.expected_replacements)
         r == resolveEdit(contentLF, oldLF, newLF, expectedCount)
         seen == [rawContent |-> rawContent, contentLF |-> contentLF,
                  matchStrategy |-> "", resultContentLF |-> contentLF]
     IN IF oldLF = newLF
        THEN /\ Finish([kind |-> "identical"])
             /\ locals' = seen
             /\ UNCHANGED <<file, writes>>
        ELSE IF aborted
        THEN /\ Finish([kind |-> "aborted"])
             /\ locals' = seen
             /\ UNCHANGED <<file, writes>>
        ELSE IF r.error.kind # "none"
        THEN /\ Finish(r.error)
             /\ locals' = seen
             /\ UNCHANGED <<file, writes>>
        ELSE /\ locals' = [seen EXCEPT !.matchStrategy = r.matchStrategy,
                                       !.resultContentLF = r.resultContentLF]
             /\ IF editUnchanged(r.resultContentLF, contentLF)
                THEN /\ Finish([kind |-> "no_changes"])
                     /\ UNCHANGED <<file, writes>>
                ELSE /\ file' = [exists |-> TRUE,
                                 raw |-> restoreLineEnding(r.resultContentLF, originalEol)]
                     /\ writes' = writes + 1
                     /\ pc' = "write"
                     /\ UNCHANGED outcome
  /\ UNCHANGED <<tool, args, aborted>>
  /\ UNCHANGED history

\* ops.writeFile settled: the response is built
\* The signal is checked once more after the write
EditWriteReturnChecksSignal ==
  /\ pc = "write" /\ tool = "code_edit"
  /\ IF aborted THEN Finish([kind |-> "aborted"])
     ELSE IF args.old_string = <<>>
     THEN Finish([kind |-> "created"])
     ELSE Finish([kind |-> "edited",
                  matchStrategy |-> locals.matchStrategy,
                  replacements |-> expectedCountOf(args.expected_replacements)])
  /\ UNCHANGED <<file, tool, args, aborted, locals, writes>>
  /\ UNCHANGED history

EditWriteReturn ==
  /\ pc = "write" /\ tool = "code_edit"
  /\ IF args.old_string = <<>>
     THEN Finish([kind |-> "created"])
     ELSE Finish([kind |-> "edited",
                  matchStrategy |-> locals.matchStrategy,
                  replacements |-> expectedCountOf(args.expected_replacements)])
  /\ UNCHANGED <<file, tool, args, aborted, locals, writes>>
  /\ UNCHANGED history

InitEdit ==
  /\ file \in DiskStates
  /\ tool = "none"
  /\ args = NoArgs
  /\ pc = "idle"
  /\ aborted = FALSE
  /\ locals = NoLocals
  /\ outcome = NoOutcome
  /\ writes = 0
  /\ history = <<>>

NextEdit ==
  \/ \E a \in EditArgs : EditInvoke(a)
  \/ Abort
  \/ EditCreateAccessReturn
  \/ EditCreateMkdirReturn
  \/ EditAccessReturn
  \/ EditReadReturn
  \/ EditWriteReturn

SpecEdit == InitEdit /\ [][NextEdit]_vars

\* ------------------------------------------------------------------------
\* Properties of code_edit
\* ------------------------------------------------------------------------

\* A region of a content is a non-empty half-open range of offsets
Regions(content) ==
  UNION {{[start |-> b, end |-> e] : e \in (b + 1)..Len(content)} :
           b \in 0..Len(content)}

DisjointRegions(R) ==
  \A r \in R : r.start < r.end /\ \A q \in R : q = r \/ q.end <= r.start \/ r.end <= q.start

\* By how much replacing every region of R by newLen characters lengthens
RECURSIVE Growth(_, _)
Growth(R, newLen) ==
  IF R = {} THEN 0
  ELSE LET r == CHOOSE q \in R : TRUE
       IN newLen - (r.end - r.start) + Growth(R \ {r}, newLen)

\* result is content with exactly the regions R replaced by new: characters
\* outside the regions keep their value and order, every region holds new
IsSplice(result, content, R, new) ==
  LET shift(i) == Growth({r \in R : r.end <= i}, Len(new))
      inside(i) == \E r \in R : r.start <= i /\ i < r.end
  IN /\ Len(result) = Len(content) + Growth(R, Len(new))
     /\ \A i \in 0..(Len(content) - 1) :
          ~inside(i) => result[i + shift(i) + 1] = content[i + 1]
     /\ \A r \in R :
          substring(result, r.start + shift(r.start),
                    r.start + shift(r.start) + Len(new)) = new

\* The non-overlapping literal occurrences of old, taken left to right
LiteralOccurrences(content, old) ==
  LET hits == {p \in 0..Len(content) : startsWithAt(content, old, p)}
      taken == CHOOSE S \in SUBSET hits :
                 \A p \in hits :
                   p \in S <=> ~\E q \in S : q < p /\ p < q + Len(old)
  IN {[start |-> p, end |-> p + Len(old)] : p \in taken}

\* The handler went through the match resolver
EditResolved ==
  /\ tool = "code_edit"
  /\ \/ pc = "write" /\ args.old_string # <<>>
     \/ pc = "done" /\ outcome.kind \in {"edited", "no_changes", "no_match",
                                         "count_mismatch_exact", "count_mismatch_relaxed"}

EditCommitted ==
  EditResolved /\ locals.matchStrategy # ""

EditFailed ==
  EditResolved /\ locals.matchStrategy = ""

ExpectedCount == IF args.expected_replacements = 0 THEN 1 ELSE args.expected_replacements

ExactCount == Cardinality(LiteralOccurrences(locals.contentLF, args.old_string))
WsCount == countRegexMatches(locals.contentLF, buildWhitespaceTolerantRegex(args.old_string))
TokenCount == countRegexMatches(locals.contentLF, buildTokenRegex(args.old_string))

\* C1: when old_string occurs exactly expectedCount times, the edit is
\* written and the written content is the original with exactly those
\* occurrences replaced by new_string, everything else unchanged.
C1_ExactReplacesExactlyTheOccurrences ==
  (EditResolved /\ ExactCount = ExpectedCount) =>
     /\ locals.matchStrategy = "exact"
     /\ writes = 1
     /\ IsSplice(file.raw, locals.contentLF,
                 LiteralOccurrences(locals.contentLF, args.old_string),
                 args.new_string)

C1_Witness ==
  /\ EditResolved /\ pc = "done" /\ outcome.kind = "edited"
  /\ locals.matchStrategy = "exact"
  /\ ExactCount = 2
  /\ Len(args.new_string) # Len(args.old_string)
  /\ writes = 1

\* C3: the committed strategy is the first of exact, whitespace-tolerant,
\* token-based whose match count equals expectedCount.
C3_EscalationOrder ==
  EditResolved =>
     /\ locals.matchStrategy = "exact" <=> ExactCount = ExpectedCount
     /\ locals.matchStrategy = "whitespace-tolerant" <=>
          (ExactCount # ExpectedCount /\ WsCount = ExpectedCount)
     /\ locals.matchStrategy = "token-based" <=>
          (ExactCount # ExpectedCount /\ WsCount # ExpectedCount
             /\ TokenCount = ExpectedCount)

C3_Witness ==
  /\ EditResolved /\ pc = "done" /\ outcome.kind = "edited"
  /\ locals.matchStrategy = "token-based"
  /\ ExactCount = 0 /\ WsCount = 0

\* C4: an edit is committed only if some strategy counts expectedCount
\* matches (1 when expected_replacements is not given); a committed edit
\* replaces exactly expectedCount regions; otherwise the call fails and the
\* file is not written.
C4_OccurrenceCountGate ==
  /\ EditCommitted =>
       /\ ExpectedCount \in {ExactCount, WsCount, TokenCount}
       /\ \E R \in SUBSET Regions(locals.contentLF) :
            /\ Cardinality(R) = ExpectedCount
            /\ DisjointRegions(R)
            /\ IsSplice(locals.resultContentLF, locals.contentLF, R, args.new_string)
  /\ (EditResolved /\ ExpectedCount \notin {ExactCount, WsCount, TokenCount}) =>
       /\ pc = "done"
       /\ outcome.kind \in {"no_match", "count_mismatch_exact", "count_mismatch_relaxed"}
       /\ writes = 0
       /\ file.raw = locals.rawContent

C4_Witness ==
  /\ EditResolved /\ pc = "done" /\ outcome.kind = "count_mismatch_exact"
  /\ args.expected_replacements = 0
  /\ ExactCount = 2
  /\ writes = 0

\* C5: the diagnostic of a failed resolution is "no match" when all three
\* counts are 0, the exact-count mismatch when the exact count is positive,
\* and the relaxed-count mismatch when only relaxed counts are positive.
C5_DiagnosticTriage ==
  EditFailed =>
     /\ pc = "done"
     /\ outcome.kind = "no_match" <=>
          (ExactCount = 0 /\ WsCount = 0 /\ TokenCount = 0)
     /\ outcome.kind = "count_mismatch_exact" <=> ExactCount > 0
     /\ outcome.kind = "count_mismatch_relaxed" <=>
          (ExactCount = 0 /\ (WsCount > 0 \/ TokenCount > 0))
     /\ outcome.kind = "count_mismatch_exact" => outcome.found = ExactCount
     /\ outcome.kind = "count_mismatch_relaxed" =>
          (outcome.ws = WsCount /\ outcome.token = TokenCount)

C5_Witness ==
  /\ EditFailed /\ outcome.kind = "count_mismatch_exact"
  /\ WsCount > 0 /\ TokenCount > 0

\* C6: a search text that is empty or all whitespace is matched by neither
\* relaxed pattern (both counts are 0); stated here as its consequence that
\* such a search text never causes a replacement by a relaxed strategy.
C6_BlankSearchNeverReplacesByRelaxedStrategy ==
  (EditResolved /\ isBlank(args.old_string)) =>
     locals.matchStrategy \notin {"whitespace-tolerant", "token-based"}

\* C9: once the signal is aborted before ops.writeFile has been called, the
\* invocation never calls writeFile (it ends with the cancellation error
\* instead); stated here as the part about the write.
C9_AbortBeforeWriteMeansNoWrite ==
  [][(aborted /\ writes = 0) => writes' = 0]_vars

\* ------------------------------------------------------------------------
\* The line-ending codec on its own: what both tools do to a file's content
\* between ops.readFile and ops.writeFile when the edit leaves it alone
\* ------------------------------------------------------------------------
RawContents == Strs(RawChars, MaxRawLen)

\* rawContent is read, its line ending detected, its content normalized
CodecNormalize ==
  /\ pc = "idle"
  /\ tool' = "codec"
  /\ locals' = [rawContent |-> file.raw,
                originalEol |-> detectLineEnding(file.raw),
                contentLF |-> normalizeToLF(file.raw)]
  /\ pc' = "normalized"
  /\ UNCHANGED <<file, args, aborted, outcome, writes>>
  /\ UNCHANGED history

\* the original line ending is restored on the normalized content
CodecRestore ==
  /\ pc = "normalized" /\ tool = "codec"
  /\ Finish([kind |-> "restored",
             finalContent |-> restoreLineEnding(locals.contentLF, locals.originalEol)])
  /\ UNCHANGED <<file, tool, args, aborted, locals, writes>>
  /\ UNCHANGED history

InitCodec ==
  /\ file \in {[exists |-> TRUE, raw |-> c] : c \in RawContents}
  /\ tool = "none"
  /\ args = NoArgs
  /\ pc = "idle"
  /\ aborted = FALSE
  /\ locals = NoLocals
  /\ outcome = NoOutcome
  /\ writes = 0
  /\ history = <<>>

NextCodec == CodecNormalize \/ CodecRestore

SpecCodec == InitCodec /\ [][NextCodec]_vars

\* Every CR of raw is immediately followed by LF
CRsArePaired(raw) ==
  \A i \in 1..Len(raw) : raw[i] = "\r" => (i < Len(raw) /\ raw[i + 1] = "\n")

\* Every LF of raw is immediately preceded by CR
LFsArePaired(raw) ==
  \A i \in 1..Len(raw) : raw[i] = "\n" => (i > 1 /\ raw[i - 1] = "\r")

HasCR(raw) == \E i \in 1..Len(raw) : raw[i] = "\r"

CodecDone == tool = "codec" /\ pc = "done"

\* C10 as claimed: any content whose CRs are all part of CRLF pairs, mixed
\* CRLF and bare LF included, survives normalize-then-restore unchanged.
C10_RoundTripPairedCR ==
  (CodecDone /\ CRsArePaired(locals.rawContent)) =>
     outcome.finalContent = locals.rawContent

\* C10 amended: content whose line breaks are all CRLF, or all bare LF with
\* no CR at all, survives normalize-then-restore unchanged.
C10_RoundTripUniform ==
  (CodecDone /\ CRsArePaired(locals.rawContent)
     /\ (~HasCR(locals.rawContent) \/ LFsArePaired(locals.rawContent))) =>
     outcome.finalContent = locals.rawContent

C10_Witness ==
  /\ CodecDone
  /\ locals.originalEol = CRLF
  /\ CRsArePaired(locals.rawContent) /\ LFsArePaired(locals.rawContent)
  /\ Len(locals.contentLF) = 3
  /\ outcome.finalContent = locals.rawContent

\* ------------------------------------------------------------------------
\* code_apply_diff: diff block parsing
\* ------------------------------------------------------------------------

\* The diff argument is held as diff.split("\n").  A line is known by what
\* lines[i].trim() compares equal to: one of the four markers, a
\* :start_line:N directive (START_LINE_RE), or plain text.
SEARCH_MARKER == "<<<<<<< SEARCH"
SEPARATOR_MARKER == "======="
REPLACE_MARKER == ">>>>>>> REPLACE"
DIVIDER_MARKER == "-------"
START_LINE_RE == ":start_line:"
TEXT == "text"

MarkerLine(mark) == [mark |-> mark, n |-> 0, text |-> <<>>]
StartLine(n) == [mark |-> START_LINE_RE, n |-> n, text |-> <<>>]
TextLine(text) == [mark |-> TEXT, n |-> 0, text |-> text]

\* The line is collected without its spaces
lineTextTrimmed(line) ==
  IF line.mark = TEXT THEN SelectSeq(line.text, LAMBDA c : c # " ") ELSE <<line.mark>>

\* The characters of a line when it is collected into a search or replace
\* body; the text of a marker is kept as one symbol
lineText(line) == IF line.mark = TEXT THEN line.text ELSE <<line.mark>>

\* lines.join("\n")
RECURSIVE joinLines(_)
joinLines(lines) ==
  IF lines = <<>> THEN <<>>
  ELSE IF Len(lines) = 1 THEN Head(lines)
  ELSE Head(lines) \o <<"\n">> \o joinLines(Tail(lines))

\* content.split("\n")
RECURSIVE splitLines(_)
splitLines(content) ==
  LET nl == indexOf(content, <<"\n">>, 0)
  IN IF nl = -1 THEN <<content>>
     ELSE <<substring(content, 0, nl)>>
            \o splitLines(substring(content, nl + 1, Len(content)))

\* Array.prototype.slice(from, to)
slice(arr, from, to) ==
  SubSeq(arr, from + 1, IF to > Len(arr) THEN Len(arr) ELSE to)

\* The while loops that collect lines until a marker: offset of the first
\* line at or after i with that marker, Len(lines) when there is none
RECURSIVE skipUntil(_, _, _)
skipUntil(lines, i, mark) ==
  IF i < Len(lines) /\ lines[i + 1].mark # mark
  THEN skipUntil(lines, i + 1, mark)
  ELSE i

\* parseDiffBlocks from line offset i: [error, blocks]; startLine is the
\* set holding the hint, empty when the block has no :start_line: line
RECURSIVE parseFrom(_, _)
parseFrom(lines, i) ==
  IF i >= Len(lines) THEN [error |-> "none", blocks |-> <<>>]
  ELSE IF lines[i + 1].mark # SEARCH_MARKER THEN parseFrom(lines, i + 1)
  ELSE
    LET afterSearch == i + 1
        hasStart == afterSearch < Len(lines)
                      /\ lines[afterSearch + 1].mark = START_LINE_RE
        startLine == IF hasStart THEN {lines[afterSearch + 1].n} ELSE {}
        afterStart == IF hasStart THEN afterSearch + 1 ELSE afterSearch
        afterDivider ==
          IF afterStart < Len(lines) /\ lines[afterStart + 1].mark = DIVIDER_MARKER
          THEN afterStart + 1 ELSE afterStart
        sepAt == skipUntil(lines, afterDivider, SEPARATOR_MARKER)
        searchLines == slice(lines, afterDivider, sepAt)
        repAt == skipUntil(lines, sepAt + 1, REPLACE_MARKER)
        replaceLines == slice(lines, sepAt + 1, repAt)
        block == [startLine |-> startLine,
                  searchContent |->
                    joinLines([k \in 1..Len(searchLines) |-> lineText(searchLines[k])]),
                  replaceContent |->
                    joinLines([k \in 1..Len(replaceLines) |-> lineText(replaceLines[k])])]
    IN IF sepAt >= Len(lines) THEN [error |-> "missing_separator", blocks |-> <<>>]
       ELSE IF repAt >= Len(lines) THEN [error |-> "missing_replace_marker", blocks |-> <<>>]
       ELSE LET rest == parseFrom(lines, repAt + 1)
            IN IF rest.error # "none" THEN rest
               ELSE [error |-> "none", blocks |-> <<block>> \o rest.blocks]

\* The parser's exception is swallowed: a diff that fails to parse yields no block
parseDiffBlocksLenient(diff) ==
  [error |-> "none", blocks |-> parseFrom(diff, 0).blocks]

parseDiffBlocks(diff) == parseFrom(diff, 0)

\* ------------------------------------------------------------------------
\* code_apply_diff: locating and applying the blocks
\* ------------------------------------------------------------------------
windowSize == 30

\* contentLF.substring(0, idx).split("\n").length
lineOfOffset(contentLF, idx) == Len(splitLines(substring(contentLF, 0, idx)))

NotFound == [found |-> FALSE, index |-> -1, matchedAtLine |-> 0]

\* The offset found in the window is taken as an offset of the content
findInWindowLocalOffset(contentLF, searchLF, hint) ==
  LET lines == splitLines(contentLF)
      hintIdx == hint - 1
      windowStart == IF hintIdx - windowSize > 0 THEN hintIdx - windowSize ELSE 0
      windowEnd == IF hintIdx + windowSize < Len(lines)
                   THEN hintIdx + windowSize ELSE Len(lines)
      windowContent == joinLines(slice(lines, windowStart, windowEnd))
      localIdx == indexOf(windowContent, searchLF, 0)
  IN IF localIdx # -1
     THEN [found |-> TRUE, index |-> localIdx,
           matchedAtLine |-> lineOfOffset(contentLF, localIdx)]
     ELSE NotFound

\* Strategy 1 of findSearchContent: exact match near the hinted line
findInWindow(contentLF, searchLF, hint) ==
  LET lines == splitLines(contentLF)
      hintIdx == hint - 1
      windowStart == IF hintIdx - windowSize > 0 THEN hintIdx - windowSize ELSE 0
      windowEnd == IF hintIdx + windowSize < Len(lines)
                   THEN hintIdx + windowSize ELSE Len(lines)
      windowContent == joinLines(slice(lines, windowStart, windowEnd))
      localIdx == indexOf(windowContent, searchLF, 0)
      prefixLength == Len(joinLines(slice(lines, 0, windowStart)))
                        + (IF windowStart > 0 THEN 1 ELSE 0)
      globalIdx == prefixLength + localIdx
  IN IF localIdx # -1
     THEN [found |-> TRUE, index |-> globalIdx,
           matchedAtLine |-> lineOfOffset(contentLF, globalIdx)]
     ELSE NotFound

\* The pattern of strategy 3: as buildWhitespaceTolerantRegex, without the g
\* flag and without a pattern for the empty string
hunkPattern(searchLF) ==
  LET parts == matchParts(searchLF)
  IN joinAtoms([i \in 1..Len(parts) |-> wsPartAtoms(parts[i])])

\* A fourth strategy: the token-based pattern
findSearchContentThenTokens(contentLF, searchLF, startLine) ==
  LET windowed == IF \E h \in startLine : h > 0
                  THEN findInWindow(contentLF, searchLF, CHOOSE h \in startLine : TRUE)
                  ELSE NotFound
      idx == indexOf(contentLF, searchLF, 0)
      parts == matchParts(searchLF)
      match == regexExec(contentLF, hunkPattern(searchLF), 0)
      tokenMatch == regexExec(contentLF, buildTokenRegex(searchLF), 0)
  IN IF windowed.found THEN windowed
     ELSE IF idx # -1
     THEN [found |-> TRUE, index |-> idx, matchedAtLine |-> lineOfOffset(contentLF, idx)]
     ELSE IF Len(parts) > 0 /\ match.index # -1
     THEN [found |-> TRUE, index |-> match.index,
           matchedAtLine |-> lineOfOffset(contentLF, match.index)]
     ELSE IF tokenMatch.index # -1
     THEN [found |-> TRUE, index |-> tokenMatch.index,
           matchedAtLine |-> lineOfOffset(contentLF, tokenMatch.index)]
     ELSE NotFound

findSearchContent(contentLF, searchLF, startLine) ==
  LET windowed == IF \E h \in startLine : h > 0
                  THEN findInWindow(contentLF, searchLF, CHOOSE h \in startLine : TRUE)
                  ELSE NotFound
      idx == indexOf(contentLF, searchLF, 0)
      parts == matchParts(searchLF)
      match == regexExec(contentLF, hunkPattern(searchLF), 0)
  IN IF windowed.found THEN windowed
     ELSE IF idx # -1
     THEN [found |-> TRUE, index |-> idx, matchedAtLine |-> lineOfOffset(contentLF, idx)]
     ELSE IF Len(parts) > 0 /\ match.index # -1
     THEN [found |-> TRUE, index |-> match.index,
           matchedAtLine |-> lineOfOffset(contentLF, match.index)]
     ELSE NotFound

\* The content once the blocks before block n were located and spliced one
\* after the other, each in the content its predecessors left
RECURSIVE contentAfterEarlier(_, _, _)
contentAfterEarlier(contentLF, blocks, n) ==
  IF n = 0 THEN contentLF
  ELSE LET before == contentAfterEarlier(contentLF, blocks, n - 1)
           searchLF == normalizeToLF(blocks[n].searchContent)
           found == findSearchContent(before, searchLF, blocks[n].startLine)
       IN IF searchLF = <<>> \/ ~found.found THEN before
          ELSE substring(before, 0, found.index)
                 \o normalizeToLF(blocks[n].replaceContent)
                 \o substring(before, found.index + Len(searchLF), Len(before))

\* A block is looked up in the content the blocks before it produced
locateBlockAfterEarlier(contentLF, blocks, b) ==
  LET searchLF == normalizeToLF(blocks[b].searchContent)
      replaceLF == normalizeToLF(blocks[b].replaceContent)
      found == findSearchContent(contentAfterEarlier(contentLF, blocks, b - 1),
                                 searchLF, blocks[b].startLine)
  IN IF searchLF = <<>>
     THEN [block |-> b, success |-> FALSE, error |-> "empty_search",
           index |-> -1, matchLength |-> 0, matchedAtLine |-> 0, replaceLF |-> replaceLF]
     ELSE IF ~found.found
     THEN [block |-> b, success |-> FALSE, error |-> "not_found",
           index |-> -1, matchLength |-> 0, matchedAtLine |-> 0, replaceLF |-> replaceLF]
     ELSE [block |-> b, success |-> TRUE, error |-> "none",
           index |-> found.index, matchLength |-> Len(searchLF),
           matchedAtLine |-> found.matchedAtLine, replaceLF |-> replaceLF]

\* First loop of applyAllBlocks: every block is looked up in the original
\* content.  A block is known by its position in blocks (the code compares
\* block objects by identity).
locateBlock(contentLF, blocks, b) ==
  LET searchLF == normalizeToLF(blocks[b].searchContent)
      replaceLF == normalizeToLF(blocks[b].replaceContent)
      found == findSearchContent(contentLF, searchLF, blocks[b].startLine)
  IN IF searchLF = <<>>
     THEN [block |-> b, success |-> FALSE, error |-> "empty_search",
           index |-> -1, matchLength |-> 0, matchedAtLine |-> 0, replaceLF |-> replaceLF]
     ELSE IF ~found.found
     THEN [block |-> b, success |-> FALSE, error |-> "not_found",
           index |-> -1, matchLength |-> 0, matchedAtLine |-> 0, replaceLF |-> replaceLF]
     ELSE [block |-> b, success |-> TRUE, error |-> "none",
           index |-> found.index, matchLength |-> Len(searchLF),
           matchedAtLine |-> found.matchedAtLine, replaceLF |-> replaceLF]

locateAll(contentLF, blocks) ==
  [b \in 1..Len(blocks) |-> locateBlock(contentLF, blocks, b)]

\* The matches are sorted by index ascending
RECURSIVE insertAscending(_, _)
insertAscending(sorted, m) ==
  IF sorted = <<>> THEN <<m>>
  ELSE IF Head(sorted).index <= m.index
    THEN <<Head(sorted)>> \o insertAscending(Tail(sorted), m)
    ELSE <<m>> \o sorted

\* matchResults.sort((a, b) => b.index - a.index): stable, index descending
RECURSIVE insertDescending(_, _)
insertDescending(sorted, m) ==
  IF sorted = <<>> THEN <<m>>
  ELSE IF Head(sorted).index >= m.index
    THEN <<Head(sorted)>> \o insertDescending(Tail(sorted), m)
    ELSE <<m>> \o sorted

RECURSIVE sortByIndexDescending(_)
sortByIndexDescending(matches) ==
  IF matches = <<>> THEN <<>>
  ELSE insertDescending(sortByIndexDescending(SubSeq(matches, 1, Len(matches) - 1)),
                        matches[Len(matches)])

sortedMatches(contentLF, blocks) ==
  sortByIndexDescending(SelectSeq(locateAll(contentLF, blocks), LAMBDA r : r.success))

\* Second loop of applyAllBlocks: the splices, in sorted order
RECURSIVE applyMatches(_, _)
applyMatches(result, matches) ==
  IF matches = <<>> THEN result
  ELSE LET match == Head(matches)
       IN applyMatches(substring(result, 0, match.index)
                         \o match.replaceLF
                         \o substring(result, match.index + match.matchLength, Len(result)),
                       Tail(matches))

\* A DiffBlockResult of a located or a failed block
blockResult(r) ==
  [block |-> r.block, success |-> r.success, error |-> r.error,
   matchedAtLine |-> r.matchedAtLine]

\* failResults: the blocks that were not located, in block order
failResultsOf(located) ==
  LET fails == SelectSeq(located, LAMBDA r : ~r.success)
  IN [k \in 1..Len(fails) |-> blockResult(fails[k])]

\* successResults: one entry pushed per splice, in the order of the splices
successResultsOf(matches) == [k \in 1..Len(matches) |-> blockResult(matches[k])]

\* Array.prototype.find((r) => r.block === block): the first entry of the
\* block, as a sequence of length one, or the empty sequence
findResult(results, b) ==
  LET hits == {k \in 1..Len(results) : results[k].block = b}
  IN IF hits = {} THEN <<>> ELSE <<results[SetMin(hits)]>>

\* The results are handed back as they were collected: the splices first,
\* then the failures
combineResultsAsCollected(blocks, successes, fails, b) == successes \o fails

\* Last loop of applyAllBlocks, from block b on: for each block its success
\* entry, else its failure entry
RECURSIVE combineResults(_, _, _, _)
combineResults(blocks, successes, fails, b) ==
  IF b > Len(blocks) THEN <<>>
  ELSE (IF findResult(successes, b) # <<>> THEN findResult(successes, b)
        ELSE findResult(fails, b))
         \o combineResults(blocks, successes, fails, b + 1)

\* applyAllBlocks once the blocks are located and the matches sorted
applyLocated(contentLF, blocks, matches, fails) ==
  [content |-> applyMatches(contentLF, matches),
   results |-> combineResults(blocks, successResultsOf(matches), fails, 1)]

\* [content, results]
applyAllBlocks(contentLF, blocks) ==
  applyLocated(contentLF, blocks, sortedMatches(contentLF, blocks),
               failResultsOf(locateAll(contentLF, blocks)))

successCountOf(results) == Len(SelectSeq(results, LAMBDA r : r.success))
failCountOf(results) == Len(SelectSeq(results, LAMBDA r : ~r.success))

\* The whole request is rejected as soon as one block failed
allBlocksFailedIfAny(results) == failCountOf(results) > 0

\* if (successCount === 0): the whole request is rejected
allBlocksFailed(results) == successCountOf(results) = 0

\* ------------------------------------------------------------------------
\* code_apply_diff execute
\* ------------------------------------------------------------------------

\* The text of one SEARCH/REPLACE block as the caller writes it
renderBlock(block) ==
  <<MarkerLine(SEARCH_MARKER)>>
    \o (IF block.startLine = {} THEN <<>>
        ELSE <<StartLine(CHOOSE n \in block.startLine : TRUE),
               MarkerLine(DIVIDER_MARKER)>>)
    \o [k \in 1..Len(splitLines(block.searchContent)) |->
          TextLine(splitLines(block.searchContent)[k])]
    \o <<MarkerLine(SEPARATOR_MARKER)>>
    \o [k \in 1..Len(splitLines(block.replaceContent)) |->
          TextLine(splitLines(block.replaceContent)[k])]
    \o <<MarkerLine(REPLACE_MARKER)>>

RECURSIVE renderBlocks(_)
renderBlocks(blocks) ==
  IF blocks = <<>> THEN <<>>
  ELSE renderBlock(Head(blocks)) \o renderBlocks(Tail(blocks))

DiffBlocks ==
  [startLine : {{}},
   searchContent : Strs(FileChars, MaxSearchLen),
   replaceContent : Strs(ReplaceChars, MaxReplaceLen)]

\* A block cut short: before its separator, and before its REPLACE marker
CutBlocks ==
  {<<MarkerLine(SEARCH_MARKER), TextLine(<<"a">>)>>,
   <<MarkerLine(SEARCH_MARKER), TextLine(<<"a">>),
     MarkerLine(SEPARATOR_MARKER), TextLine(<<"a">>)>>}

\* Diff texts: every sequence of one to MaxBlocks well-formed blocks, a blank
\* text, a text without blocks, and a block cut short, alone or after a
\* well-formed block
DiffTexts ==
  {renderBlocks(bs) : bs \in UNION {[1..k -> DiffBlocks] : k \in 1..MaxBlocks}}
    \cup {<<TextLine(<<>>)>>, <<TextLine(<<"a">>)>>}
    \cup {renderBlocks(bs) \o cut :
            bs \in UNION {[1..k -> DiffBlocks] : k \in 0..1}, cut \in CutBlocks}

DiffArgs == [file_path : FilePaths, diff : DiffTexts]

\* !diff || !diff.trim()
isBlankDiff(diff) ==
  \A k \in 1..Len(diff) : diff[k].mark = TEXT /\ isBlank(diff[k].text)

\* Entry: signal check, parameter checks, then ops.access is awaited
DiffInvoke(a) ==
  /\ pc = "idle"
  /\ tool' = "code_apply_diff"
  /\ args' = a
  /\ IF aborted THEN Finish([kind |-> "aborted"])
     ELSE IF isBlank(a.file_path) THEN Finish([kind |-> "missing_file_path"])
     ELSE IF isBlankDiff(a.diff) THEN Finish([kind |-> "missing_diff"])
     ELSE pc' = "access" /\ UNCHANGED outcome
  /\ UNCHANGED <<file, aborted, locals, writes>>
  /\ UNCHANGED history

\* ops.access settled: signal check, the diff is parsed, ops.readFile is awaited
DiffAccessReturn ==
  /\ pc = "access" /\ tool = "code_apply_diff"
  /\ LET parsed == parseDiffBlocks(args.diff)
     IN IF ~file.exists THEN Finish([kind |-> "not_found"]) /\ UNCHANGED locals
        ELSE IF aborted THEN Finish([kind |-> "aborted"]) /\ UNCHANGED locals
        ELSE IF parsed.error # "none"
        THEN Finish([kind |-> "parse_error", error |-> parsed.error]) /\ UNCHANGED locals
        ELSE IF Len(parsed.blocks) = 0
        THEN Finish([kind |-> "no_blocks"]) /\ UNCHANGED locals
        ELSE /\ pc' = "read"
             /\ locals' = [rawContent |-> <<>>, blocks |-> parsed.blocks]
             /\ UNCHANGED outcome
  /\ UNCHANGED <<file, tool, args, aborted, writes>>
  /\ UNCHANGED history

\* if (finalContent === rawContent): nothing changed
diffUnchanged(finalContent, rawContent) == finalContent = rawContent

\* ops.readFile settled: signal check, the blocks are applied, and
\* ops.writeFile is called unless every block failed or nothing changed
DiffReadReturn ==
  /\ pc = "read" /\ tool = "code_apply_diff"
  /\ \E applied \in {applyAllBlocks(normalizeToLF(file.raw), locals.blocks)} :
       LET rawContent == file.raw
           originalEol == detectLineEnding(rawContent)
           contentLF == normalizeToLF(rawContent)
           newContentLF == applied.content
           results == applied.results
           finalContent == restoreLineEnding(newContentLF, originalEol)
           seen == [rawContent |-> rawContent, blocks |-> locals.blocks,
                    contentLF |-> contentLF, newContentLF |-> contentLF,
                    results |-> <<>>]
       IN IF aborted
          THEN /\ Finish([kind |-> "aborted"])
               /\ locals' = seen
               /\ UNCHANGED <<file, writes>>
          ELSE /\ locals' = [seen EXCEPT !.newContentLF = newContentLF,
                                         !.results = results]
               /\ IF allBlocksFailed(results)
                  THEN /\ Finish([kind |-> "all_failed",
                                  failCount |-> failCountOf(results)])
                       /\ UNCHANGED <<file, writes>>
                  ELSE IF diffUnchanged(finalContent, rawContent)
                  THEN /\ Finish([kind |-> "no_changes"])
                       /\ UNCHANGED <<file, writes>>
                  ELSE /\ file' = [exists |-> TRUE, raw |-> finalContent]
                       /\ writes' = writes + 1
                       /\ pc' = "write"
                       /\ UNCHANGED outcome
  /\ UNCHANGED <<tool, args, aborted>>
  /\ UNCHANGED history

\* The post-edit context of the response: the line it is said to be around
\* (0 when no context is shown) and the numbered lines of newContentLF shown
postEditContext(results, newContentLF) ==
  LET successes == {k \in 1..Len(results) : results[k].success}
      firstSuccess == IF successes = {} THEN <<>> ELSE <<results[SetMin(successes)]>>
      around == IF firstSuccess = <<>> THEN 0 ELSE firstSuccess[1].matchedAtLine
      newLines == splitLines(newContentLF)
      contextStart == IF around - 4 > 0 THEN around - 4 ELSE 0
      contextEnd == IF around + 15 < Len(newLines) THEN around + 15 ELSE Len(newLines)
      shown == slice(newLines, contextStart, contextEnd)
  IN IF around = 0 THEN [around |-> 0, lines |-> <<>>]
     ELSE [around |-> around,
           lines |-> [i \in 1..Len(shown) |-> [n |-> contextStart + i, text |-> shown[i]]]]

\* ops.writeFile settled: the response is built
DiffWriteReturn ==
  /\ pc = "write" /\ tool = "code_apply_diff"
  /\ Finish([kind |-> "applied",
             successCount |-> successCountOf(locals.results),
             total |-> Len(locals.blocks),
             succeeded |-> {b \in 1..Len(locals.results) : locals.results[b].success},
             failed |-> {b \in 1..Len(locals.results) : ~locals.results[b].success},
             context |-> postEditContext(locals.results, locals.newContentLF)])
  /\ UNCHANGED <<file, tool, args, aborted, locals, writes>>
  /\ UNCHANGED history

InitDiff == InitEdit

NextDiff ==
  \/ \E a \in DiffArgs : DiffInvoke(a)
  \/ Abort
  \/ DiffAccessReturn
  \/ DiffReadReturn
  \/ DiffWriteReturn

SpecDiff == InitDiff /\ [][NextDiff]_vars

\* ------------------------------------------------------------------------
\* Properties of code_apply_diff
\* ------------------------------------------------------------------------

\* The handler applied the blocks: ops.writeFile is in flight, or the handler
\* returned after applyAllBlocks
DiffRan ==
  /\ tool = "code_apply_diff"
  /\ \/ pc = "write"
     \/ pc = "done" /\ outcome.kind \in {"applied", "no_changes", "all_failed"}

DiffReturned ==
  /\ tool = "code_apply_diff"
  /\ pc = "done"
  /\ outcome.kind \in {"applied", "no_changes", "all_failed"}

\* search occurs in content neither in a window nor anywhere, and the
\* whitespace-tolerant pattern matches
LocatedByPatternOnly(content, search) ==
  /\ search # <<>>
  /\ ~\E p \in 0..Len(content) : startsWithAt(content, search, p)
  /\ \E p \in 0..Len(content) : matchAtoms(content, hunkPattern(search), 1, p) # -1

\* The span the whitespace-tolerant pattern matched
PatternSpan(content, search) ==
  LET m == regexExec(content, hunkPattern(search), 0)
  IN [start |-> m.index, end |-> m.end]

\* A block is located when its search body is not empty and occurs in the
\* content literally or under the whitespace-tolerant pattern
IsLocated(content, block) ==
  LET search == normalizeToLF(block.searchContent)
  IN /\ search # <<>>
     /\ \/ \E p \in 0..Len(content) : startsWithAt(content, search, p)
        \/ \E p \in 0..Len(content) :
             matchAtoms(content, hunkPattern(search), 1, p) # -1

LocatedBlocks == {b \in 1..Len(locals.blocks) : IsLocated(locals.contentLF, locals.blocks[b])}

\* The content the located blocks alone produce
LocatedSubsetApplied ==
  restoreLineEnding(
    applyAllBlocks(locals.contentLF,
                   SelectSeq(locals.blocks,
                             LAMBDA blk : IsLocated(locals.contentLF, blk))).content,
    detectLineEnding(locals.rawContent))

\* C2: a single hunk located only by the whitespace-tolerant step replaces
\* exactly the span the pattern matched; every character outside that span
\* keeps its value and order, whatever the length of the span.
C2_PatternHunkReplacesMatchedSpan ==
  (DiffRan /\ Len(locals.blocks) = 1
     /\ LocatedByPatternOnly(locals.contentLF, normalizeToLF(locals.blocks[1].searchContent)))
  => IsSplice(locals.newContentLF, locals.contentLF,
              {PatternSpan(locals.contentLF, normalizeToLF(locals.blocks[1].searchContent))},
              normalizeToLF(locals.blocks[1].replaceContent))

\* C7: the located hunks are spliced in descending start-offset order and
\* every splice range [index, index + matchLength) ends at or before the
\* start of every splice processed before it.
C7_SplicesNeverReachEarlierSplices ==
  DiffRan =>
    LET matches == sortedMatches(locals.contentLF, locals.blocks)
    IN \A i \in 1..Len(matches) : \A j \in 1..Len(matches) :
         i < j => /\ matches[j].index <= matches[i].index
                  /\ matches[j].index + matches[j].matchLength <= matches[i].index

\* C8 as stated: whenever at least one hunk is located the file is written
\* with the located subset applied and the response reports the counts and
\* the failed hunks; when every hunk fails the invocation fails and nothing
\* is written.
C8_LocatedHunkAlwaysWritten ==
  DiffReturned =>
    IF LocatedBlocks = {}
    THEN outcome.kind = "all_failed" /\ writes = 0 /\ file.raw = locals.rawContent
    ELSE /\ outcome.kind = "applied"
         /\ writes = 1
         /\ file.raw = LocatedSubsetApplied

\* C8, amended: when at least one hunk is located and the located subset
\* changes the content, the file is written once with the located subset
\* applied and the response reports successCount/total and names each failed
\* hunk; when the located subset leaves the content as it was, nothing is
\* written and "No changes needed" is returned; only when every hunk fails
\* does the invocation fail, and then the file is not written.
C8_PartialSuccessPolicy ==
  DiffReturned =>
    IF LocatedBlocks = {}
    THEN /\ outcome.kind = "all_failed"
         /\ outcome.failCount = Len(locals.blocks)
         /\ writes = 0
         /\ file.raw = locals.rawContent
    ELSE IF LocatedSubsetApplied = locals.rawContent
    THEN /\ outcome.kind = "no_changes"
         /\ writes = 0
         /\ file.raw = locals.rawContent
    ELSE /\ outcome.kind = "applied"
         /\ writes = 1
         /\ file.raw = LocatedSubsetApplied
         /\ outcome.successCount = Cardinality(LocatedBlocks)
         /\ outcome.total = Len(locals.blocks)
         /\ outcome.succeeded = LocatedBlocks
         /\ outcome.failed = (1..Len(locals.blocks)) \ LocatedBlocks

\* A partial success: one hunk located, one not, the file written
C8_Witness ==
  /\ DiffReturned
  /\ outcome.kind = "applied"
  /\ Len(locals.blocks) = 2
  /\ Cardinality(LocatedBlocks) = 1
  /\ outcome.failed # {}
  /\ writes = 1
  /\ file.raw # locals.rawContent

\* ------------------------------------------------------------------------
\* Sessions: an invocation returns and the caller repeats the same call
\* ------------------------------------------------------------------------
SessionDiskStates ==
  {[exists |-> FALSE, raw |-> <<>>]}
    \cup {[exists |-> TRUE, raw |-> c] : c \in Strs(SessionChars, MaxSessionFileLen)}

SessionEditArgs ==
  [file_path : {<<"f">>},
   old_string : Strs(SessionChars, MaxSessionArgLen),
   new_string : Strs(SessionChars, MaxSessionArgLen),
   expected_replacements : {0}]

SessionDiffArgs ==
  [file_path : {<<"f">>},
   diff : {renderBlock(b) :
             b \in [startLine : {{}},
                    searchContent : Strs(SessionChars, MaxSessionArgLen),
                    replaceContent : Strs(SessionChars, MaxSessionArgLen)]}]

LastCall == history[Len(history)]

\* execute's promise settles; the next call gets a signal of its own
Return ==
  /\ pc = "done"
  /\ Len(history) < MaxRetries
  /\ history' = Append(history, [tool |-> tool, args |-> args, outcome |-> outcome,
                                 file |-> file, writes |-> writes])
  /\ pc' = "idle"
  /\ tool' = "none"
  /\ args' = NoArgs
  /\ locals' = NoLocals
  /\ outcome' = NoOutcome
  /\ writes' = 0
  /\ aborted' = FALSE
  /\ UNCHANGED file

\* The caller repeats the call that returned last
RetryEdit ==
  /\ history # <<>>
  /\ LastCall.tool = "code_edit"
  /\ EditInvoke(LastCall.args)

RetryDiff ==
  /\ history # <<>>
  /\ LastCall.tool = "code_apply_diff"
  /\ DiffInvoke(LastCall.args)

InitSession ==
  /\ file \in SessionDiskStates
  /\ tool = "none"
  /\ args = NoArgs
  /\ pc = "idle"
  /\ aborted = FALSE
  /\ locals = NoLocals
  /\ outcome = NoOutcome
  /\ writes = 0
  /\ history = <<>>

NextSession ==
  \/ history = <<>> /\ \E a \in SessionEditArgs : EditInvoke(a)
  \/ history = <<>> /\ \E a \in SessionDiffArgs : DiffInvoke(a)
  \/ RetryEdit
  \/ RetryDiff
  \/ Abort
  \/ EditCreateAccessReturn
  \/ EditCreateMkdirReturn
  \/ EditAccessReturn
  \/ EditReadReturn
  \/ EditWriteReturn
  \/ DiffAccessReturn
  \/ DiffReadReturn
  \/ DiffWriteReturn
  \/ Return

SpecSession == InitSession /\ [][NextSession]_vars

\* ------------------------------------------------------------------------
\* Properties of sessions
\* ------------------------------------------------------------------------

\* raw holds a CRLF line break: the file is detected as CRLF
HasCRLF(raw) == \E i \in 1..(Len(raw) - 1) : raw[i] = "\r" /\ raw[i + 1] = "\n"

\* raw holds an LF that no CR precedes
HasBareLF(raw) == ~LFsArePaired(raw)

\* An edit of an existing file was written (single edit or multi-hunk)
EditWritten ==
  /\ writes = 1
  /\ \/ tool = "code_edit" /\ args.old_string # <<>>
     \/ tool = "code_apply_diff"

\* C11: after a successful edit (single edit under any strategy, or
\* multi-hunk) of a file that holds a CRLF line break, every LF of the
\* written content is preceded by CR, in replaced and in untouched regions,
\* whether the arguments used LF or CRLF.
C11_CRLFPreserved ==
  (EditWritten /\ HasCRLF(locals.rawContent)) => LFsArePaired(file.raw)

\* A CRLF file edited with a new_string that uses bare LF; the written
\* content holds more line breaks than the file held
C11_Witness ==
  /\ tool = "code_edit"
  /\ pc = "done"
  /\ outcome.kind = "edited"
  /\ HasCRLF(locals.rawContent)
  /\ HasBareLF(args.new_string)
  /\ Len(file.raw) > Len(locals.rawContent)
  /\ history = <<>>

\* The call in progress repeats a call that returned
IsRetry == history # <<>> /\ tool # "none"

\* C12: in create-file mode (old_string empty) the handler goes on to write
\* only when the path does not exist, and the file it creates holds
\* new_string verbatim, line endings included; the same call repeated on the
\* now-existing path fails with "already exists" (or is cancelled on entry)
\* and leaves the file as the first call wrote it.
C12_CreateThenAlreadyExists ==
  (tool = "code_edit" /\ args.old_string = <<>>) =>
    /\ pc = "mkdir" => ~file.exists
    /\ (pc = "done" /\ outcome.kind = "created") =>
         file = [exists |-> TRUE, raw |-> args.new_string] /\ writes = 1
    /\ (pc = "done" /\ outcome.kind = "already_exists") => file.exists /\ writes = 0
    /\ (IsRetry /\ LastCall.outcome.kind = "created") =>
         /\ file = [exists |-> TRUE, raw |-> LastCall.args.new_string]
         /\ writes = 0
         /\ pc \in {"access", "done"}
         /\ pc = "done" => \/ outcome.kind = "already_exists"
                           \/ outcome.kind = "aborted" /\ aborted

\* A file created with CRLF in new_string, and the repeated call rejected
C12_Witness ==
  /\ IsRetry
  /\ tool = "code_edit"
  /\ LastCall.outcome.kind = "created"
  /\ HasCRLF(LastCall.args.new_string)
  /\ pc = "done"
  /\ outcome.kind = "already_exists"
  /\ file.raw = args.new_string

\* C13: when a hunk set was applied with every hunk located and the same
\* hunk set is applied again to the content that resulted, no hunk is
\* located again: the second invocation fails and does not write.
C13_ReapplyLocatesNoHunk ==
  (IsRetry /\ DiffRan
     /\ LastCall.outcome.kind = "applied" /\ LastCall.outcome.failed = {})
  => /\ \A b \in 1..Len(locals.results) : ~locals.results[b].success
     /\ writes = 0
     /\ pc = "done" => outcome.kind = "all_failed"

\* The single edit in progress reached the match resolver
RetryResolved == IsRetry /\ EditResolved /\ LastCall.outcome.kind = "edited"

\* old_string, normalized, has no literal occurrence in the content read
NoLiteralOccurrence ==
  ~\E p \in 0..Len(locals.contentLF) :
     startsWithAt(locals.contentLF, normalizeToLF(args.old_string), p)

\* Neither relaxed pattern of old_string matches anywhere in the content read
NoRelaxedMatch ==
  \A p \in 0..Len(locals.contentLF) :
    /\ matchAtoms(locals.contentLF,
                  buildWhitespaceTolerantRegex(normalizeToLF(args.old_string)), 1, p) = -1
    /\ matchAtoms(locals.contentLF,
                  buildTokenRegex(normalizeToLF(args.old_string)), 1, p) = -1

\* C14 as stated: a single edit was applied and the same edit is invoked
\* again; when old_string no longer occurs literally in the file, the call
\* fails with "No match found" and does not modify the file.
C14_StaleEditFailsWithoutLiteralOccurrence ==
  (RetryResolved /\ NoLiteralOccurrence)
  => /\ writes = 0
     /\ file = LastCall.file
     /\ pc = "done" => outcome.kind = "no_match"

\* C14, amended: when old_string is matched by none of the three strategies
\* (no literal occurrence, no whitespace-tolerant match, no token-based
\* match), the repeated call fails with "No match found" and does not modify
\* the file.
C14_StaleEditFailsWithoutAnyMatch ==
  (RetryResolved /\ NoLiteralOccurrence /\ NoRelaxedMatch)
  => /\ writes = 0
     /\ file = LastCall.file
     /\ pc = "done"
     /\ outcome.kind = "no_match"

\* An edit applied, repeated, and rejected with "No match found"
C14_Witness ==
  /\ RetryResolved
  /\ NoLiteralOccurrence
  /\ NoRelaxedMatch
  /\ LastCall.writes = 1
  /\ outcome.kind = "no_match"

\* ------------------------------------------------------------------------
\* code_apply_diff with a line hint, on files longer than the hint window
\* ------------------------------------------------------------------------

\* Long enough for a line on either side of a window of 2 * windowSize lines
WindowFileLines == 2 * windowSize + 2

\* The file of WindowFileLines lines whose lines P hold "a", the others empty
WindowFile(P) ==
  joinLines([k \in 1..WindowFileLines |-> IF k \in P THEN <<"a">> ELSE <<>>])

WindowDiskStates ==
  {[exists |-> TRUE, raw |-> WindowFile(P)] :
     P \in {Q \in SUBSET {1, 2, windowSize + 1, windowSize + 2,
                          2 * windowSize + 1, 2 * windowSize + 2} :
              Cardinality(Q) <= MaxMatchingLines}}

HintLines == {0, 1, 2, windowSize + 1, windowSize + 2}

WindowDiffArgs ==
  [file_path : {<<"f">>},
   diff : {renderBlock([startLine |-> {h}, searchContent |-> <<"a">>,
                        replaceContent |-> r]) :
             h \in HintLines, r \in Strs(ReplaceChars, MaxReplaceLen)}]

InitWindow ==
  /\ file \in WindowDiskStates
  /\ tool = "none"
  /\ args = NoArgs
  /\ pc = "idle"
  /\ aborted = FALSE
  /\ locals = NoLocals
  /\ outcome = NoOutcome
  /\ writes = 0
  /\ history = <<>>

NextWindow ==
  \/ \E a \in WindowDiffArgs : DiffInvoke(a)
  \/ Abort
  \/ DiffAccessReturn
  \/ DiffReadReturn
  \/ DiffWriteReturn

SpecWindow == InitWindow /\ [][NextWindow]_vars

\* The 1-indexed line that holds offset p of content
LineOf(content, p) == 1 + Cardinality({i \in 1..p : content[i] = "\n"})

\* The offsets of the exact occurrences of search that lie wholly within
\* lines hint - windowSize .. hint + windowSize of content
OccurrencesNearHint(content, search, hint) ==
  {p \in 0..(Len(content) - Len(search)) :
     /\ startsWithAt(content, search, p)
     /\ LineOf(content, p) >= hint - windowSize
     /\ LineOf(content, p + Len(search) - 1) <= hint + windowSize}

\* C15: for a hunk with hint H, when the search body occurs wholly within
\* lines H-30 .. H+30 of the original content, the hunk is located at such an
\* occurrence (the first of them), also when an earlier occurrence lies
\* outside the window.
C15_HintedHunkLocatedInWindow ==
  (DiffRan /\ Len(locals.blocks) = 1)
  => \A h \in locals.blocks[1].startLine :
       LET search == normalizeToLF(locals.blocks[1].searchContent)
           near == OccurrencesNearHint(locals.contentLF, search, h)
       IN (h > 0 /\ near # {})
          => /\ locals.results[1].success
             /\ locals.results[1].matchedAtLine = LineOf(locals.contentLF, SetMin(near))

\* C16: the results of multi-hunk application hold exactly one entry per
\* parsed hunk, in input order: entry i is the entry of hunk i and says
\* whether hunk i was located, whatever the order of the splices, and the
\* success and failure counts add up to the number of hunks.
C16_ResultsMirrorInputOrder ==
  DiffRan =>
    /\ Len(locals.results) = Len(locals.blocks)
    /\ \A i \in 1..Len(locals.results) :
         /\ locals.results[i].block = i
         /\ locals.results[i].success <=> i \in LocatedBlocks
    /\ successCountOf(locals.results) + failCountOf(locals.results) = Len(locals.blocks)
    /\ (pc = "done" /\ outcome.kind = "applied") =>
         /\ outcome.succeeded \cup outcome.failed = 1..Len(locals.blocks)
         /\ outcome.succeeded \cap outcome.failed = {}
         /\ outcome.successCount + Cardinality(outcome.failed) = outcome.total

\* Two hunks located, the first on an earlier line than the second, so the
\* second is spliced first
C16_Witness ==
  /\ DiffRan
  /\ pc = "done"
  /\ Len(locals.blocks) = 2
  /\ locals.results[1].success
  /\ locals.results[2].success
  /\ locals.results[1].matchedAtLine < locals.results[2].matchedAtLine
  /\ sortedMatches(locals.contentLF, locals.blocks)[1].block = 2

\* The diff ends with the lines of cut, a block cut short, and what precedes
\* them is nothing or ends with the REPLACE marker of a complete block
EndsCutShort(diff, cut) ==
  /\ Len(diff) >= Len(cut)
  /\ SubSeq(diff, Len(diff) - Len(cut) + 1, Len(diff)) = cut
  /\ \/ Len(diff) = Len(cut)
     \/ diff[Len(diff) - Len(cut)].mark = REPLACE_MARKER

MissingSeparator(diff) ==
  EndsCutShort(diff, <<MarkerLine(SEARCH_MARKER), TextLine(<<"a">>)>>)

MissingReplaceMarker(diff) ==
  EndsCutShort(diff, <<MarkerLine(SEARCH_MARKER), TextLine(<<"a">>),
                       MarkerLine(SEPARATOR_MARKER), TextLine(<<"a">>)>>)

HasNoSearchMarker(diff) == \A k \in 1..Len(diff) : diff[k].mark # SEARCH_MARKER

\* The handler returned, the file exists and the signal never fired: the
\* handler got as far as parsing the diff
DiffParsedAndReturned ==
  /\ tool = "code_apply_diff"
  /\ pc = "done"
  /\ file.exists
  /\ ~aborted
  /\ outcome.kind \notin {"missing_file_path", "missing_diff"}

\* C17: a diff with a malformed hunk (no separator after a SEARCH marker, or
\* no REPLACE marker after a separator) fails as a whole with a parse error
\* and nothing is written, also when a well-formed hunk precedes it; a diff
\* without any SEARCH marker fails with the distinct "no blocks found" error.
C17_MalformedDiffRejected ==
  tool = "code_apply_diff" =>
    /\ (MissingSeparator(args.diff) \/ MissingReplaceMarker(args.diff)
          \/ HasNoSearchMarker(args.diff))
       => writes = 0 /\ pc \in {"access", "done"}
    /\ DiffParsedAndReturned =>
         /\ MissingSeparator(args.diff) =>
              outcome = [kind |-> "parse_error", error |-> "missing_separator"]
         /\ MissingReplaceMarker(args.diff) =>
              outcome = [kind |-> "parse_error", error |-> "missing_replace_marker"]
         /\ HasNoSearchMarker(args.diff) <=> outcome.kind = "no_blocks"

\* A well-formed hunk that occurs in the file, followed by a hunk cut short:
\* the request fails and the file is as it was
C17_Witness ==
  /\ DiffParsedAndReturned
  /\ outcome.kind = "parse_error"
  /\ writes = 0
  /\ \E b \in DiffBlocks, cut \in CutBlocks :
       /\ args.diff = renderBlock(b) \o cut
       /\ IsLocated(normalizeToLF(file.raw), b)
       /\ b.replaceContent # b.searchContent

\* A parsed hunk has an empty search body
HasEmptySearchHunk ==
  \E b \in 1..Len(locals.blocks) : normalizeToLF(locals.blocks[b].searchContent) = <<>>

\* C18: a request that holds a hunk with an empty search body is rejected as
\* a whole: no hunk of it is applied, nothing is written, and the call does
\* not end as an applied or unchanged edit.
C18_EmptySearchHunkRejectsRequest ==
  (DiffRan /\ HasEmptySearchHunk)
  => /\ writes = 0
     /\ locals.newContentLF = locals.contentLF
     /\ pc = "done" /\ outcome.kind \notin {"applied", "no_changes"}

\* C19: an input error (missing or blank file_path or diff, old_string equal
\* to new_string after normalization, empty search body in a hunk) is
\* reported by the entry step of the handler, before ops.access,
\* ops.readFile, ops.mkdir or ops.writeFile is called in that invocation.
C19_InputErrorsBeforeFileAccess ==
  [][(\/ /\ outcome.kind = "none"
         /\ outcome'.kind \in {"missing_file_path", "missing_diff", "identical"}
      \/ /\ tool = "code_apply_diff" /\ pc = "read" /\ pc' # "read"
         /\ \E b \in 1..Len(locals'.results) : locals'.results[b].error = "empty_search")
     => pc = "idle"]_vars

\* The content the handler would write: the result with the file's line
\* ending restored
EditFinalContent ==
  restoreLineEnding(locals.resultContentLF, detectLineEnding(locals.rawContent))

DiffFinalContent ==
  restoreLineEnding(locals.newContentLF, detectLineEnding(locals.rawContent))

\* C20: when the accepted strategy of a single edit, or the located hunks of
\* a multi-hunk request, yield content identical to the file's content, the
\* call returns "No changes needed" and ops.writeFile is not called; a call
\* that ends as a successful edit has written content that differs from what
\* the file held.
C20_NoOpRejected ==
  /\ (EditResolved /\ locals.matchStrategy # ""
        /\ (locals.resultContentLF = locals.contentLF
              \/ EditFinalContent = locals.rawContent))
     => /\ pc = "done" /\ outcome.kind = "no_changes"
        /\ writes = 0
        /\ file.raw = locals.rawContent
  /\ (DiffRan /\ LocatedBlocks # {} /\ DiffFinalContent = locals.rawContent)
     => /\ pc = "done" /\ outcome.kind = "no_changes"
        /\ writes = 0
        /\ file.raw = locals.rawContent
  /\ (pc = "done" /\ outcome.kind \in {"edited", "applied"})
     => writes = 1 /\ file.raw # locals.rawContent

\* A single edit whose accepted strategy replaced a match by the same text
C20_Witness ==
  /\ EditResolved
  /\ locals.matchStrategy # ""
  /\ locals.resultContentLF = locals.contentLF
  /\ outcome.kind = "no_changes"
  /\ writes = 0
  /\ normalizeToLF(args.old_string) # normalizeToLF(args.new_string)

\* ------------------------------------------------------------------------
\* Locating is read-only
\* ------------------------------------------------------------------------

\* The search body of block b occurs in the replace body of another block
OnlyInReplacement(b) ==
  /\ ~IsLocated(locals.contentLF, locals.blocks[b])
  /\ normalizeToLF(locals.blocks[b].searchContent) # <<>>
  /\ \E o \in 1..Len(locals.blocks) :
       /\ o # b
       /\ locals.results[o].success
       /\ includes(normalizeToLF(locals.blocks[o].replaceContent),
                   normalizeToLF(locals.blocks[b].searchContent))

\* C21: every hunk is located in the original content, before any splice:
\* whether hunk b is located, and at which offset and line, is what the
\* original content and hunk b alone give, whatever the other hunks replace;
\* a hunk whose search body exists only in the replacement text of another
\* hunk fails.
C21_LocatedAgainstOriginalOnly ==
  DiffRan =>
    \A b \in 1..Len(locals.blocks) :
      LET alone == locateBlock(locals.contentLF, <<locals.blocks[b]>>, 1)
          among == locateBlock(locals.contentLF, locals.blocks, b)
      IN /\ among.success = alone.success
         /\ among.index = alone.index
         /\ locals.results[b].success = IsLocated(locals.contentLF, locals.blocks[b])
         /\ locals.results[b].matchedAtLine = alone.matchedAtLine
         /\ OnlyInReplacement(b) => ~locals.results[b].success

\* The second hunk searches for the text the first hunk puts in; the first
\* is applied, the second fails
C21_Witness ==
  /\ DiffRan
  /\ pc = "done"
  /\ outcome.kind = "applied"
  /\ Len(locals.blocks) = 2
  /\ locals.results[1].success
  /\ OnlyInReplacement(2)
  /\ outcome.failed = {2}
  /\ includes(locals.newContentLF, normalizeToLF(locals.blocks[2].searchContent))

\* ------------------------------------------------------------------------
\* Disjoint exact hunks
\* ------------------------------------------------------------------------

\* The range of the first literal occurrence of the search body of block b
ExactRange(content, block) ==
  LET search == normalizeToLF(block.searchContent)
      start == SetMin({p \in 0..Len(content) : startsWithAt(content, search, p)})
  IN [start |-> start, end |-> start + Len(search)]

ExactlyLocated(content, block) ==
  /\ normalizeToLF(block.searchContent) # <<>>
  /\ \E p \in 0..Len(content) :
       startsWithAt(content, normalizeToLF(block.searchContent), p)

\* Every located block of blocks occurs literally in content, and the ranges
\* of the located blocks are pairwise disjoint
ExactAndDisjoint(content, blocks) ==
  LET located == {b \in 1..Len(blocks) : IsLocated(content, blocks[b])}
  IN /\ \A b \in located : ExactlyLocated(content, blocks[b])
     /\ \A b, c \in located :
          b # c => \/ ExactRange(content, blocks[b]).end <= ExactRange(content, blocks[c]).start
                   \/ ExactRange(content, blocks[c]).end <= ExactRange(content, blocks[b]).start

\* content read once from offset p on: at the start of the range of a
\* located block its replace body is put and the range skipped, every other
\* character is kept
RECURSIVE ReplacedFrom(_, _, _)
ReplacedFrom(content, blocks, p) ==
  LET starting == {b \in 1..Len(blocks) :
                     /\ ExactlyLocated(content, blocks[b])
                     /\ ExactRange(content, blocks[b]).start = p}
  IN IF p >= Len(content) THEN <<>>
     ELSE IF starting # {}
     THEN LET b == CHOOSE x \in starting : TRUE
          IN normalizeToLF(blocks[b].replaceContent)
               \o ReplacedFrom(content, blocks, ExactRange(content, blocks[b]).end)
     ELSE <<content[p + 1]>> \o ReplacedFrom(content, blocks, p + 1)

\* blocks in the order perm
Reordered(blocks, perm) == [k \in 1..Len(blocks) |-> blocks[perm[k]]]

\* C22: when every located hunk is an exact match and the ranges of the
\* located hunks in the original content are pairwise disjoint, the content
\* produced equals the original with each range replaced by the replace body
\* of its hunk and every character outside the ranges kept in order; the
\* same content is produced for every input order of the hunks.
C22_DisjointExactHunksSplice ==
  (DiffRan /\ ExactAndDisjoint(locals.contentLF, locals.blocks))
  => /\ locals.newContentLF = ReplacedFrom(locals.contentLF, locals.blocks, 0)
     /\ \A perm \in Permutations(1..Len(locals.blocks)) :
          applyAllBlocks(locals.contentLF, Reordered(locals.blocks, perm)).content
            = locals.newContentLF

\* Two exact hunks on disjoint ranges, the first given lying after the
\* second in the file, both changing the length of the content
C22_Witness ==
  /\ DiffRan
  /\ pc = "done"
  /\ outcome.kind = "applied"
  /\ Len(locals.blocks) = 2
  /\ outcome.failed = {}
  /\ ExactAndDisjoint(locals.contentLF, locals.blocks)
  /\ ExactRange(locals.contentLF, locals.blocks[2]).end
       <= ExactRange(locals.contentLF, locals.blocks[1]).start
  /\ \A b \in 1..2 : Len(normalizeToLF(locals.blocks[b].replaceContent))
                        # Len(normalizeToLF(locals.blocks[b].searchContent))

\* ------------------------------------------------------------------------
\* code_apply_diff with several hinted hunks that add and remove lines
\* ------------------------------------------------------------------------

\* The file of WindowFileLines lines whose lines P hold " a", the others empty
ContextFile(P) ==
  joinLines([k \in 1..WindowFileLines |-> IF k \in P THEN <<" ", "a">> ELSE <<>>])

\* " a" on the first line, on the second line after the first window, on
\* both, or on none
ContextDiskStates ==
  {[exists |-> TRUE, raw |-> ContextFile(P)] : P \in SUBSET {1, windowSize + 2}}

\* No hint, a hint on the second line, a hint past the first window
ContextHints == {0, 2, windowSize + 2}

\* Search bodies: the text of a line, that text with a wider indent, two
\* tokens on one line, and a run of line breaks
ContextSearches ==
  {<<"a">>, <<" ", " ", "a">>, <<"a", " ", "a">>, <<"\n", "\n", "\n", "\n">>}

ContextReplaces == {<<"b">>}

ContextBlocks ==
  [startLine : {{h} : h \in ContextHints},
   searchContent : ContextSearches,
   replaceContent : ContextReplaces]

ContextDiffArgs ==
  [file_path : {<<"f">>},
   diff : {renderBlocks(bs) : bs \in UNION {[1..k -> ContextBlocks] : k \in 1..MaxBlocks}}]

InitContext ==
  /\ file \in ContextDiskStates
  /\ tool = "none"
  /\ args = NoArgs
  /\ pc = "idle"
  /\ aborted = FALSE
  /\ locals = NoLocals
  /\ outcome = NoOutcome
  /\ writes = 0
  /\ history = <<>>

NextContext ==
  \/ \E a \in ContextDiffArgs : DiffInvoke(a)
  \/ Abort
  \/ DiffAccessReturn
  \/ DiffReadReturn
  \/ DiffWriteReturn

SpecContext == InitContext /\ [][NextContext]_vars

\* ------------------------------------------------------------------------
\* Reported line numbers
\* ------------------------------------------------------------------------

\* C23: for every located hunk the reported matchedAtLine is the 1-indexed
\* line of the original content at which the located match starts; an
\* exact match, windowed or not, starts at an offset where the original
\* content holds the search body; the value is what the hunk alone gives,
\* whatever other hunks are present and however the splices are ordered.
C23_MatchedAtLineIsOriginalLine ==
  DiffRan =>
    \A b \in 1..Len(locals.blocks) :
      locals.results[b].success =>
        LET search == normalizeToLF(locals.blocks[b].searchContent)
            alone == locateBlock(locals.contentLF, <<locals.blocks[b]>>, 1)
        IN /\ alone.success
           /\ ExactlyLocated(locals.contentLF, locals.blocks[b])
                => startsWithAt(locals.contentLF, search, alone.index)
           /\ locals.results[b].matchedAtLine = LineOf(locals.contentLF, alone.index)

\* Two hunks located: the first through a window that starts after the
\* first line of the file, the second higher in the file and spliced last
C23_Witness ==
  /\ DiffRan
  /\ pc = "done"
  /\ outcome.kind = "applied"
  /\ Len(locals.blocks) = 2
  /\ locals.blocks[1].startLine = {windowSize + 2}
  /\ locals.results[1].success
  /\ locals.results[2].success
  /\ locals.results[1].matchedAtLine > windowSize
  /\ locals.results[2].matchedAtLine < locals.results[1].matchedAtLine

\* ------------------------------------------------------------------------
\* Order of the locator's steps
\* ------------------------------------------------------------------------

\* The offsets at which the whitespace-tolerant pattern of search matches
PatternOffsets(content, search) ==
  {p \in 0..Len(content) : matchAtoms(content, hunkPattern(search), 1, p) # -1}

LiteralOffsets(content, search) ==
  {p \in 0..Len(content) : startsWithAt(content, search, p)}

\* search matches content under the token-based pattern only
TokenOnly(content, search) ==
  /\ search # <<>>
  /\ LiteralOffsets(content, search) = {}
  /\ PatternOffsets(content, search) = {}
  /\ countRegexMatches(content, buildTokenRegex(search)) > 0

\* The line the locator reports for block: of the windowed exact match when
\* a positive hint is given and the window holds one, else of the first
\* exact match in the file, else of the first whitespace-tolerant match;
\* 0 when no step succeeds
LocatorLine(content, block) ==
  LET search == normalizeToLF(block.searchContent)
      windowed == IF \E h \in block.startLine : h > 0
                  THEN findInWindow(content, search, CHOOSE h \in block.startLine : TRUE)
                  ELSE NotFound
  IN IF search = <<>> THEN 0
     ELSE IF windowed.found THEN LineOf(content, windowed.index)
     ELSE IF LiteralOffsets(content, search) # {}
     THEN LineOf(content, SetMin(LiteralOffsets(content, search)))
     ELSE IF PatternOffsets(content, search) # {}
     THEN LineOf(content, SetMin(PatternOffsets(content, search)))
     ELSE 0

\* C24: a hunk is located by the first of these steps that succeeds: the
\* windowed exact match (only with a positive line hint), the exact match in
\* the full file, the whitespace-tolerant match in the full file.  The
\* token-based pattern is never tried: a hunk whose search body matches the
\* file under that pattern only is marked failed, although code_edit accepts
\* the same search text by its token-based strategy.
C24_LocatorOrderWithoutTokens ==
  DiffRan =>
    \A b \in 1..Len(locals.blocks) :
      LET search == normalizeToLF(locals.blocks[b].searchContent)
          replace == normalizeToLF(locals.blocks[b].replaceContent)
          line == LocatorLine(locals.contentLF, locals.blocks[b])
      IN /\ locals.results[b].success = (line # 0)
         /\ locals.results[b].matchedAtLine = line
         /\ TokenOnly(locals.contentLF, search) =>
              /\ ~locals.results[b].success
              /\ locals.results[b].error = "not_found"
              /\ countRegexMatches(locals.contentLF, buildTokenRegex(search)) = 1
                   => resolveEdit(locals.contentLF, search, replace, 1).matchStrategy
                        = "token-based"

\* A hunk whose search body has a space where the file has line breaks is
\* marked failed; a hunk located by the whitespace-tolerant step is applied
C24_Witness ==
  /\ DiffRan
  /\ pc = "done"
  /\ outcome.kind = "applied"
  /\ Len(locals.blocks) = 2
  /\ TokenOnly(locals.contentLF, normalizeToLF(locals.blocks[1].searchContent))
  /\ countRegexMatches(locals.contentLF,
                       buildTokenRegex(normalizeToLF(locals.blocks[1].searchContent))) = 1
  /\ outcome.failed = {1}
  /\ LiteralOffsets(locals.contentLF, normalizeToLF(locals.blocks[2].searchContent)) = {}
  /\ locals.results[2].success

\* ------------------------------------------------------------------------
\* The pattern builders on their own: both patterns of a search text are
\* built and run against a content
\* ------------------------------------------------------------------------
PatternTexts == Strs(PatternChars, MaxPatternLen)

\* buildWhitespaceTolerantRegex and buildTokenRegex on oldLF
PatternBuild ==
  /\ pc = "idle"
  /\ tool' = "patterns"
  /\ locals' = [contentLF |-> file.raw,
                wsRegex |-> buildWhitespaceTolerantRegex(args.old_string),
                tokenRegex |-> buildTokenRegex(args.old_string)]
  /\ pc' = "built"
  /\ UNCHANGED <<file, args, aborted, outcome, writes>>
  /\ UNCHANGED history

\* countRegexMatches with each pattern
PatternCount ==
  /\ pc = "built" /\ tool = "patterns"
  /\ Finish([kind |-> "counted",
             wsCount |-> countRegexMatches(locals.contentLF, locals.wsRegex),
             tokenCount |-> countRegexMatches(locals.contentLF, locals.tokenRegex)])
  /\ UNCHANGED <<file, tool, args, aborted, locals, writes>>
  /\ UNCHANGED history

InitPattern ==
  /\ file \in {[exists |-> TRUE, raw |-> c] : c \in PatternTexts}
  /\ tool = "none"
  /\ args \in {[old_string |-> o] : o \in PatternTexts}
  /\ pc = "idle"
  /\ aborted = FALSE
  /\ locals = NoLocals
  /\ outcome = NoOutcome
  /\ writes = 0
  /\ history = <<>>

NextPattern == PatternBuild \/ PatternCount

SpecPattern == InitPattern /\ [][NextPattern]_vars

PatternDone == tool = "patterns" /\ pc = "done"

\* text is made of the parts in order: a non-whitespace part as it is, a
\* whitespace part without a line break as a non-empty run of spaces and
\* tabs, a whitespace part with a line break as a non-empty run of any
\* whitespace
RECURSIVE Accepts(_, _)
Accepts(text, parts) ==
  IF parts = <<>> THEN text = <<>>
  ELSE LET part == Head(parts)
           rest(n) == SubSeq(text, n + 1, Len(text))
       IN IF \E i \in 1..Len(part) : part[i] \notin {" ", "\t", "\n", "\r"}
          THEN /\ Len(text) >= Len(part)
               /\ SubSeq(text, 1, Len(part)) = part
               /\ Accepts(rest(Len(part)), Tail(parts))
          ELSE \E n \in 1..Len(text) :
                 /\ \A i \in 1..n :
                      IF \E j \in 1..Len(part) : part[j] = "\n"
                      THEN text[i] \in {" ", "\t", "\n", "\r"}
                      ELSE text[i] \in {" ", "\t"}
                 /\ Accepts(rest(n), Tail(parts))

\* The tokens of a search text, each two separated by a line break
RECURSIVE TokensByLine(_)
TokensByLine(tokens) ==
  IF Len(tokens) <= 1 THEN tokens
  ELSE <<Head(tokens), <<"\n">>>> \o TokensByLine(Tail(tokens))

\* The spans [start, end) of content that regex matches from their start
SpansOf(content, regex) ==
  {sp \in [start : 0..Len(content), end : 0..Len(content)] :
     matchAtoms(content, regex, 1, sp.start) = sp.end}

\* C25: under the whitespace-tolerant pattern a whitespace run of the search
\* text made of spaces and tabs only matches a non-empty run of spaces and
\* tabs, never whitespace with a line break, and a run with a line break
\* matches any non-empty whitespace run; the token-based pattern matches the
\* tokens of the search text separated by any non-empty whitespace; and
\* every span matched by the whitespace-tolerant pattern of a search text
\* with at least one token contains a span matched by its token-based
\* pattern.
C25_PatternSemantics ==
  PatternDone =>
    LET content == locals.contentLF
        parts == matchParts(args.old_string)
        tokens == splitTokens(args.old_string)
        span(b, e) == SubSeq(content, b + 1, e)
        wsSpans == SpansOf(content, locals.wsRegex)
        tokenSpans == SpansOf(content, locals.tokenRegex)
    IN /\ \A sp \in wsSpans : Accepts(span(sp.start, sp.end), parts)
       /\ \A b \in 0..Len(content) :
            (parts # <<>> /\ \E e \in b..Len(content) : Accepts(span(b, e), parts))
              => \E sp \in wsSpans : sp.start = b
       /\ \A sp \in tokenSpans : Accepts(span(sp.start, sp.end), TokensByLine(tokens))
       /\ \A b \in 0..Len(content) :
            (tokens # <<>> /\ \E e \in b..Len(content) :
                                Accepts(span(b, e), TokensByLine(tokens)))
              => \E sp \in tokenSpans : sp.start = b
       /\ tokens # <<>> =>
            \A sp \in wsSpans : \E tk \in tokenSpans :
              sp.start <= tk.start /\ tk.end <= sp.end

\* A search text with a space between two tokens, a content with a line
\* break between them: no whitespace-tolerant match, one token-based match
C25_Witness ==
  /\ PatternDone
  /\ args.old_string = <<"a", " ", "a">>
  /\ locals.contentLF = <<"a", "\n", "a">>
  /\ outcome.wsCount = 0
  /\ outcome.tokenCount = 1

\* ------------------------------------------------------------------------
\* The hunk parser on its own
\* ------------------------------------------------------------------------

\* What may follow a SEARCH marker before the search body
ParseHeaders ==
  {<<>>, <<StartLine(2)>>, <<MarkerLine(DIVIDER_MARKER)>>,
   <<StartLine(2), MarkerLine(DIVIDER_MARKER)>>}

ParseSearchBodies ==
  {<<>>, <<TextLine(<<" ", "a">>)>>, <<TextLine(<<"a">>), TextLine(<<>>)>>}

ParseReplaceBodies == {<<>>, <<TextLine(<<"a">>)>>}

\* The pieces a diff text is made of: a complete hunk, a line of text, a
\* marker on its own
ParseSegments ==
  {<<MarkerLine(SEARCH_MARKER)>> \o h \o sb \o <<MarkerLine(SEPARATOR_MARKER)>>
     \o rb \o <<MarkerLine(REPLACE_MARKER)>> :
       h \in ParseHeaders, sb \in ParseSearchBodies, rb \in ParseReplaceBodies}
    \cup {<<TextLine(<<"a">>)>>, <<MarkerLine(SEARCH_MARKER)>>,
          <<MarkerLine(SEPARATOR_MARKER)>>, <<MarkerLine(REPLACE_MARKER)>>}

RECURSIVE concatSegments(_)
concatSegments(segs) ==
  IF segs = <<>> THEN <<>> ELSE Head(segs) \o concatSegments(Tail(segs))

ParseTexts ==
  {concatSegments(segs) : segs \in UNION {[1..k -> ParseSegments] : k \in 1..MaxSegments}}

\* parseDiffBlocks(diff): the blocks, or the error thrown
ParseDiff ==
  /\ pc = "idle"
  /\ tool' = "parser"
  /\ Finish([kind |-> "parsed",
             error |-> parseDiffBlocks(args.diff).error,
             blocks |-> parseDiffBlocks(args.diff).blocks])
  /\ UNCHANGED <<file, args, aborted, locals, writes>>
  /\ UNCHANGED history

InitParse ==
  /\ file = [exists |-> TRUE, raw |-> <<>>]
  /\ tool = "none"
  /\ args \in [file_path : {<<"f">>}, diff : ParseTexts]
  /\ pc = "idle"
  /\ aborted = FALSE
  /\ locals = NoLocals
  /\ outcome = NoOutcome
  /\ writes = 0
  /\ history = <<>>

NextParse == ParseDiff

SpecParse == InitParse /\ [][NextParse]_vars

ParseDone == tool = "parser" /\ pc = "done"

\* The lines of diff that hold a SEARCH marker
SearchLinesOf(diff) == {i \in 1..Len(diff) : diff[i].mark = SEARCH_MARKER}

\* The line after the header of the hunk that starts on line s
BodyStart(diff, s) ==
  LET afterStart == IF s < Len(diff) /\ diff[s + 1].mark = START_LINE_RE
                    THEN s + 2 ELSE s + 1
  IN IF afterStart <= Len(diff) /\ diff[afterStart].mark = DIVIDER_MARKER
     THEN afterStart + 1 ELSE afterStart

\* The first line from from on that holds mark, 0 when there is none
FirstMarker(diff, from, mark) ==
  LET at == {i \in from..Len(diff) : diff[i].mark = mark}
  IN IF at = {} THEN 0 ELSE SetMin(at)

SeparatorOf(diff, s) == FirstMarker(diff, BodyStart(diff, s), SEPARATOR_MARKER)

ReplaceOf(diff, s) ==
  IF SeparatorOf(diff, s) = 0 THEN 0
  ELSE FirstMarker(diff, SeparatorOf(diff, s) + 1, REPLACE_MARKER)

\* Every SEARCH marker opens a hunk with a separator and a REPLACE marker,
\* the body lines of every hunk are text, and so is every line outside the
\* hunks
WellFormedDiff(diff) ==
  /\ \A s \in SearchLinesOf(diff) :
       /\ SeparatorOf(diff, s) # 0
       /\ ReplaceOf(diff, s) # 0
       /\ \A i \in BodyStart(diff, s)..ReplaceOf(diff, s) :
            i \notin {SeparatorOf(diff, s), ReplaceOf(diff, s)} => diff[i].mark = TEXT
  /\ \A i \in 1..Len(diff) :
       diff[i].mark # TEXT =>
         \E s \in SearchLinesOf(diff) : s <= i /\ i <= ReplaceOf(diff, s)

\* The text lines from to to, joined by line breaks
RECURSIVE BodyText(_, _, _)
BodyText(diff, from, to) ==
  IF from > to THEN <<>>
  ELSE IF from = to THEN diff[from].text
  ELSE diff[from].text \o <<"\n">> \o BodyText(diff, from + 1, to)

\* The hunk that starts on line s of diff
HunkAt(diff, s) ==
  [startLine |-> IF s < Len(diff) /\ diff[s + 1].mark = START_LINE_RE
                 THEN {diff[s + 1].n} ELSE {},
   searchContent |-> BodyText(diff, BodyStart(diff, s), SeparatorOf(diff, s) - 1),
   replaceContent |-> BodyText(diff, SeparatorOf(diff, s) + 1, ReplaceOf(diff, s) - 1)]

\* The hunks of a well-formed diff, in the order of their SEARCH markers
HunksOf(diff) ==
  [j \in 1..Cardinality(SearchLinesOf(diff)) |->
     HunkAt(diff, CHOOSE s \in SearchLinesOf(diff) :
                    Cardinality({t \in SearchLinesOf(diff) : t < s}) = j - 1)]

\* C26: for a diff made of k well-formed hunks (SEARCH marker, optional
\* :start_line:N line, optional divider line, search lines, separator,
\* replacement lines, REPLACE marker) whose body lines are no marker lines,
\* with any text that holds no marker between them, parseDiffBlocks returns
\* exactly the k hunks in input order, each with its startLine (or none) and
\* with its search and replace bodies joined by line breaks; the text
\* outside the hunks is ignored.
C26_WellFormedHunksParsed ==
  (ParseDone /\ WellFormedDiff(args.diff))
  => /\ outcome.error = "none"
     /\ outcome.blocks = HunksOf(args.diff)

\* Two hunks with a line of text between them, one with a :start_line: line,
\* one with a search body of two lines or of an indented line
C26_Witness ==
  /\ ParseDone
  /\ WellFormedDiff(args.diff)
  /\ Len(outcome.blocks) = 2
  /\ \E i \in 1..Len(args.diff) :
       /\ args.diff[i].mark = TEXT
       /\ \E s \in SearchLinesOf(args.diff) : ReplaceOf(args.diff, s) < i
       /\ \E s \in SearchLinesOf(args.diff) : i < s
  /\ \E b \in 1..2 : outcome.blocks[b].startLine = {2}
  /\ \E b \in 1..2 : outcome.blocks[b].startLine = {}
  /\ \E b \in 1..2 : outcome.blocks[b].searchContent \in {<<" ", "a">>, <<"a", "\n">>}

\* ------------------------------------------------------------------------
\* Post-edit context
\* ------------------------------------------------------------------------
DiffApplied == tool = "code_apply_diff" /\ pc = "done" /\ outcome.kind = "applied"

\* Block b as it was located in the content read
LocatedAs(b) == locateBlock(locals.contentLF, locals.blocks, b)

\* The spliced ranges lie apart from each other
SplicesApart ==
  \A b, c \in 1..Len(locals.blocks) :
    (b # c /\ LocatedAs(b).success /\ LocatedAs(c).success)
      => \/ LocatedAs(b).index + LocatedAs(b).matchLength <= LocatedAs(c).index
         \/ LocatedAs(c).index + LocatedAs(c).matchLength <= LocatedAs(b).index

\* By how much the splices before offset idx moved the text after them,
\* counting the blocks from b on
RECURSIVE ShiftBefore(_, _)
ShiftBefore(idx, b) ==
  IF b > Len(locals.blocks) THEN 0
  ELSE (IF LocatedAs(b).success /\ LocatedAs(b).index < idx
        THEN Len(LocatedAs(b).replaceLF) - LocatedAs(b).matchLength ELSE 0)
         + ShiftBefore(idx, b + 1)

FirstSuccess == SetMin({b \in 1..Len(locals.results) : locals.results[b].success})

\* The line of the post-edit content on which the replacement of the first
\* successful hunk begins
FirstReplacementLine ==
  LineOf(locals.newContentLF,
         LocatedAs(FirstSuccess).index + ShiftBefore(LocatedAs(FirstSuccess).index, 1))

\* C27: after a successful write the lines shown as post-edit context are
\* lines of the post-edit content under their new 1-indexed numbers, and
\* they include the line on which the replacement of the first successful
\* hunk begins in the post-edit content, also when a hunk located higher in
\* the file changed the number of lines above it.
C27_ContextShowsFirstReplacement ==
  (DiffApplied /\ SplicesApart)
  => /\ \A i \in 1..Len(outcome.context.lines) :
          LET shown == outcome.context.lines[i]
          IN /\ shown.n \in 1..Len(splitLines(locals.newContentLF))
             /\ shown.text = splitLines(locals.newContentLF)[shown.n]
     /\ \E i \in 1..Len(outcome.context.lines) :
          outcome.context.lines[i].n = FirstReplacementLine

\* ------------------------------------------------------------------------
\* Both tools on one file
\* ------------------------------------------------------------------------
NextTools ==
  \/ \E a \in EditArgs : EditInvoke(a)
  \/ \E a \in DiffArgs : DiffInvoke(a)
  \/ Abort
  \/ EditCreateAccessReturn
  \/ EditCreateMkdirReturn
  \/ EditAccessReturn
  \/ EditReadReturn
  \/ EditWriteReturn
  \/ DiffAccessReturn
  \/ DiffReadReturn
  \/ DiffWriteReturn

SpecTools == InitEdit /\ [][NextTools]_vars

\* The ways an invocation ends in an error
ErrorKinds ==
  {"missing_file_path", "missing_diff", "identical", "not_found", "already_exists",
   "parse_error", "no_blocks", "no_match", "count_mismatch_exact",
   "count_mismatch_relaxed", "all_failed", "aborted"}

InvocationFailed == pc = "done" /\ outcome.kind \in ErrorKinds

\* C28: an invocation of code_edit or code_apply_diff calls ops.writeFile at
\* most once; an invocation that ends in an error (input, missing file,
\* already exists, parse, no match, occurrence-count mismatch, all hunks
\* failed, cancellation) has not called it; and the file changes only with
\* a call of ops.writeFile, so a failed invocation leaves the file as it was.
C28_WriteDiscipline ==
  /\ [](writes <= 1 /\ (InvocationFailed => writes = 0))
  /\ [][file' # file => writes' = writes + 1]_vars

\* A multi-hunk request cancelled after the file was read: nothing written
C28_Witness ==
  /\ tool = "code_apply_diff"
  /\ pc = "done"
  /\ outcome.kind = "aborted"
  /\ "contentLF" \in DOMAIN locals
  /\ IsLocated(normalizeToLF(file.raw), locals.blocks[1])
  /\ writes = 0

\* ------------------------------------------------------------------------
\* code_edit on contents that hold a search text more than once
\* ------------------------------------------------------------------------
ResolveChars == {"a", " "}

ResolveDiskStates ==
  {[exists |-> TRUE, raw |-> c] : c \in Strs(ResolveChars, MaxResolveFileLen)}

ResolveEditArgs ==
  [file_path : {<<"f">>},
   old_string : Strs(ResolveChars, MaxOldLen) \ {<<>>},
   new_string : Strs(NewChars, MaxNewLen),
   expected_replacements : {0, 2}]

InitResolve ==
  /\ file \in ResolveDiskStates
  /\ tool = "none"
  /\ args = NoArgs
  /\ pc = "idle"
  /\ aborted = FALSE
  /\ locals = NoLocals
  /\ outcome = NoOutcome
  /\ writes = 0
  /\ history = <<>>

NextResolve ==
  \/ \E a \in ResolveEditArgs : EditInvoke(a)
  \/ Abort
  \/ EditAccessReturn
  \/ EditReadReturn
  \/ EditWriteReturn

SpecResolve == InitResolve /\ [][NextResolve]_vars

\* The search text occurs literally, but not expectedCount times
AmbiguousExact == EditResolved /\ ExactCount > 0 /\ ExactCount # ExpectedCount

RejectedNamingExactCount ==
  /\ pc = "done"
  /\ outcome = [kind |-> "count_mismatch_exact", found |-> ExactCount]
  /\ locals.matchStrategy = ""
  /\ writes = 0

\* C29 as stated: whenever the exact literal occurrence count is positive
\* but differs from expectedCount, the edit is rejected with the
\* occurrence-count-mismatch diagnostic naming the exact count; no
\* whitespace-tolerant or token-based match is committed in its place.
C29_AmbiguousExactAlwaysRejected ==
  AmbiguousExact => RejectedNamingExactCount

\* C29, amended: whenever the exact literal occurrence count is positive but
\* differs from expectedCount, the edit is rejected with the
\* occurrence-count-mismatch diagnostic naming the exact count unless the
\* whitespace-tolerant or the token-based match count equals expectedCount;
\* in that case the first relaxed strategy whose count equals expectedCount
\* is committed.
C29_AmbiguousExactRejectedUnlessRelaxedCountFits ==
  AmbiguousExact =>
    IF WsCount = ExpectedCount THEN locals.matchStrategy = "whitespace-tolerant"
    ELSE IF TokenCount = ExpectedCount THEN locals.matchStrategy = "token-based"
    ELSE RejectedNamingExactCount

\* A search text with a token that occurs twice where one occurrence is
\* expected, and no relaxed count fits: rejected, naming the two occurrences
C29_Witness ==
  /\ AmbiguousExact
  /\ ~isBlank(args.old_string)
  /\ ExactCount = 2
  /\ ExpectedCount = 1
  /\ RejectedNamingExactCount

\* ------------------------------------------------------------------------
\* One region per hunk
\* ------------------------------------------------------------------------

\* The first match of the locator step that wins for block: the first
\* occurrence inside the hint window, else the first occurrence in the
\* file, else the first match of the whitespace-tolerant pattern
FirstMatch(content, block) ==
  LET search == normalizeToLF(block.searchContent)
      windowed == IF \E h \in block.startLine : h > 0
                  THEN findInWindow(content, search, CHOOSE h \in block.startLine : TRUE)
                  ELSE NotFound
  IN IF windowed.found
     THEN [start |-> windowed.index, end |-> windowed.index + Len(search)]
     ELSE IF LiteralOffsets(content, search) # {}
     THEN [start |-> SetMin(LiteralOffsets(content, search)),
           end |-> SetMin(LiteralOffsets(content, search)) + Len(search)]
     ELSE PatternSpan(content, search)

HunkLocated(content, block) == LocatorLine(content, block) # 0

\* The first matches of the located blocks lie apart from each other
FirstMatchesApart(content, blocks) ==
  \A b, c \in 1..Len(blocks) :
    (b # c /\ HunkLocated(content, blocks[b]) /\ HunkLocated(content, blocks[c]))
      => \/ FirstMatch(content, blocks[b]).end <= FirstMatch(content, blocks[c]).start
         \/ FirstMatch(content, blocks[c]).end <= FirstMatch(content, blocks[b]).start

\* content from offset p on, the first match of each located block that
\* starts at or after p giving way to its replace body and all other text
\* kept
RECURSIVE FirstMatchesReplacedFrom(_, _, _)
FirstMatchesReplacedFrom(content, blocks, p) ==
  LET later == {b \in 1..Len(blocks) :
                  /\ HunkLocated(content, blocks[b])
                  /\ FirstMatch(content, blocks[b]).start >= p}
  IN IF later = {} THEN substring(content, p, Len(content))
     ELSE LET b == CHOOSE x \in later :
                     \A y \in later : FirstMatch(content, blocks[x]).start
                                         <= FirstMatch(content, blocks[y]).start
          IN substring(content, p, FirstMatch(content, blocks[b]).start)
               \o normalizeToLF(blocks[b].replaceContent)
               \o FirstMatchesReplacedFrom(content, blocks, FirstMatch(content, blocks[b]).end)

\* Every located block of blocks is located by an exact step
AllExact(content, blocks) ==
  \A b \in 1..Len(blocks) :
    HunkLocated(content, blocks[b]) => ExactlyLocated(content, blocks[b])

\* C30: no occurrence is counted in multi-hunk mode: every located hunk is
\* reported as a success, however often its search body occurs, and
\* replaces exactly one region, the first match of its winning locator step
\* (the first occurrence inside the hint window, else the first occurrence
\* in the file); every other occurrence and all other text is left as it
\* was.
C30_OneRegionPerHunk ==
  (DiffRan /\ FirstMatchesApart(locals.contentLF, locals.blocks))
  => /\ \A b \in 1..Len(locals.blocks) :
          locals.results[b].success = HunkLocated(locals.contentLF, locals.blocks[b])
     /\ locals.newContentLF
          = FirstMatchesReplacedFrom(locals.contentLF, locals.blocks, 0)

====
